---- MODULE Spec2Model ----
(***************************************************************************)
(* Personalization & Prediction Engine of the voice assistant              *)
(* (package src/learning): voice profiles, task predictions, conversation *)
(* context and pattern recognition, modelled as state machines over the    *)
(* relational store the components share.                                  *)
(*                                                                         *)
(* Conventions                                                             *)
(*  - A table is a set of rows (records); a SQLAlchemy Session created     *)
(*    with autoflush=False (src/core/database.py:20) evaluates every       *)
(*    query filter on the committed rows and keeps attribute assignments   *)
(*    pending until commit() flushes them or close() discards them.        *)
(*  - Queries are modelled as written (Task.user_id == user_id, ...).      *)
(*  - datetime.now() and the server-side func.now() defaults read one      *)
(*    clock, the variable now.                                             *)
(*  - Floats in [0,1] are fixed-point integers 0..Scale; a division      *)
(*    truncates.                                                           *)
(***************************************************************************)
EXTENDS Integers, Sequences, FiniteSets, TLC

VARIABLES
    vpDb,        \* committed rows of table voice_profiles
    vpPending,   \* the session's unflushed is_primary assignments: profile_id -> BOOLEAN
    vpNext,      \* next fresh profile id (stands for uuid4)
    now,         \* the clock, in minutes since a Monday 00:00
    habits,      \* rows of table user_habits
    tasks,       \* rows of table tasks
    predictions, \* rows of table task_predictions
    predNext,    \* next autoincrement id of task_predictions
    contexts,    \* rows of table conversation_contexts
    ctxNext,     \* next autoincrement id of conversation_contexts
    commands,    \* rows of table command_history
    profiles,    \* rows of table user_profiles
    inflight,    \* calls that have read a habit and not yet committed, one per session
    queue,       \* MessageQueue.queue: the scheduled messages, in the order they were added
    running,     \* MessageQueue.running
    threads,     \* the live worker threads and where each one is
    outbox,      \* per message, the send calls the WhatsApp handler has received
    ret          \* the last call and what it returned

vars == <<vpDb, vpPending, vpNext, now, habits, tasks, predictions, predNext,
          contexts, ctxNext, commands, profiles, inflight, queue, running, threads,
          outbox, ret>>

queueVars == <<queue, running, threads, outbox>>

voiceVars == <<vpDb, vpPending, vpNext>>

predVars == <<now, habits, tasks, predictions, predNext>>

ctxVars == <<contexts, ctxNext>>

learnVars == <<profiles, inflight>>

notVoice == <<predVars, ctxVars, commands, queueVars, learnVars>>

notPred == <<voiceVars, ctxVars, commands, queueVars, learnVars>>

notCtx == <<voiceVars, habits, tasks, predictions, predNext, commands, queueVars,
           learnVars>>

----------------------------------------------------------------------------
\* Bounds of the model

MaxProfiles == 4
Scale == 100
MaxPredictions == 2
MaxLimit == 2
MaxTicks == 3
MaxTemplate == 2

Users == {"u1", "u2"}

NoRet == [op |-> "none"]

----------------------------------------------------------------------------
\* Voice Recognizer (src/learning/voice_recognizer.py)

\* recognition_accuracy = Column(Float, default=0.0), false_positive_rate likewise
DefaultAccuracy == 0

\* alpha = 0.1 as the divisor 1/alpha
AlphaInv == 10

\* the 0.5 of "profile.recognition_accuracy or 0.5"
FallbackAccuracy == Scale \div 2

\* a JSON column with default={}
EmptyDict == [k \in {} |-> 0]

\* speaking_rate = Column(Float) of a profile that has none: NULL, falsy like 0.0
NullRate == 0

VoiceProfile(pid, u, primary) ==
    [profile_id |-> pid, user_id |-> u, is_primary |-> primary,
     recognition_accuracy |-> DefaultAccuracy,
     false_positive_rate |-> DefaultAccuracy,
     voice_embeddings |-> EmptyDict, pitch_range |-> EmptyDict,
     energy_range |-> EmptyDict, speaking_rate |-> NullRate,
     training_samples |-> 0, is_active |-> TRUE]

ProfileIds == 1..MaxProfiles

\* ids a caller may pass: the allocated ones and 0, which is never allocated
AnyProfileId == 0..MaxProfiles

EmptyPending == [i \in {} |-> FALSE]

\* query(VoiceProfile).filter(VoiceProfile.user_id == user_id)
ProfilesOf(db, u) == {p \in db : p.user_id = u}

\* query(VoiceProfile).filter(profile_id == pid, user_id == u)
OwnedProfile(db, pid, u) == {p \in db : p.profile_id = pid /\ p.user_id = u}

\* query(VoiceProfile).filter(profile_id == pid)
ProfileById(db, pid) == {p \in db : p.profile_id = pid}

\* the attribute value the session's object shows: a pending assignment
\* hides the committed column
SessionIsPrimary(pending, p) ==
    IF p.profile_id \in DOMAIN pending THEN pending[p.profile_id] ELSE p.is_primary

\* profile.is_primary = v, not yet flushed
Assign(pending, ids, v) ==
    [i \in (DOMAIN pending) \cup ids |-> IF i \in ids THEN v ELSE pending[i]]

\* db.commit(): flush every pending assignment into its row
Flush(db, pending) ==
    {[p EXCEPT !.is_primary = SessionIsPrimary(pending, p)] : p \in db}

create_voice_profile(u) ==
    /\ vpNext <= MaxProfiles
    /\ LET existing_profiles == ProfilesOf(vpDb, u)
           is_primary == (existing_profiles = {})
       IN  /\ vpDb' = Flush(vpDb, vpPending) \cup {VoiceProfile(vpNext, u, is_primary)}
           /\ vpPending' = EmptyPending
           /\ vpNext' = vpNext + 1
           /\ ret' = [op |-> "create_voice_profile", user_id |-> u,
                      profile_id |-> vpNext, result |-> TRUE]
    /\ UNCHANGED notVoice

delete_voice_profile(pid, u) ==
    LET found == OwnedProfile(vpDb, pid, u) IN
    /\ UNCHANGED notVoice
    /\ IF found = {}
       THEN /\ ret' = [op |-> "delete_voice_profile", user_id |-> u,
                       profile_id |-> pid, result |-> FALSE]
            /\ UNCHANGED voiceVars
       ELSE LET profile == CHOOSE p \in found : TRUE
                others == {p \in vpDb : p.user_id = u /\ p.profile_id # pid}
            IN  /\ \E other \in (IF SessionIsPrimary(vpPending, profile) /\ others # {}
                                 THEN {{o.profile_id} : o \in others} ELSE {{}}) :
                       vpDb' = Flush(vpDb, Assign(vpPending, other, TRUE)) \
                                  Flush(found, Assign(vpPending, other, TRUE))
                /\ vpPending' = EmptyPending
                /\ vpNext' = vpNext
                /\ ret' = [op |-> "delete_voice_profile", user_id |-> u,
                           profile_id |-> pid, result |-> TRUE]

set_primary_profile(pid, u) ==
    LET current_primary == {p.profile_id : p \in {q \in vpDb : q.user_id = u /\ q.is_primary}}
        unset == Assign(vpPending, current_primary, FALSE)
        new_primary == OwnedProfile(vpDb, pid, u)
    IN  /\ UNCHANGED notVoice
        /\ IF new_primary = {}
           THEN /\ vpPending' = unset
                /\ UNCHANGED <<vpDb, vpNext>>
                /\ ret' = [op |-> "set_primary_profile", user_id |-> u,
                           profile_id |-> pid, result |-> FALSE]
           ELSE /\ vpDb' = Flush(vpDb, Assign(unset, {pid}, TRUE))
                /\ vpPending' = EmptyPending
                /\ vpNext' = vpNext
                /\ ret' = [op |-> "set_primary_profile", user_id |-> u,
                           profile_id |-> pid, result |-> TRUE]

\* lines 275-278 with the branches swapped: a correct answer lowers the score
NewAccuracyNudgedDown(current_accuracy, was_correct) ==
    IF was_correct
    THEN current_accuracy - current_accuracy \div AlphaInv
    ELSE current_accuracy + (Scale - current_accuracy) \div AlphaInv

\* new_accuracy = current + alpha * (1.0 - current)  |  current - alpha * current
NewAccuracy(current_accuracy, was_correct) ==
    IF was_correct
    THEN current_accuracy + (Scale - current_accuracy) \div AlphaInv
    ELSE current_accuracy - current_accuracy \div AlphaInv

\* "x or 0.5": a stored 0.0 is falsy and is replaced by the fallback
OrElse(x, fallback) == IF x = 0 THEN fallback ELSE x

update_recognition_accuracy(pid, was_correct) ==
    LET found == ProfileById(vpDb, pid) IN
    /\ UNCHANGED notVoice
    /\ IF found = {}
       THEN /\ ret' = [op |-> "update_recognition_accuracy", profile_id |-> pid,
                       was_correct |-> was_correct, result |-> FALSE]
            /\ UNCHANGED voiceVars
       ELSE LET profile == CHOOSE p \in found : TRUE
                current_accuracy == OrElse(profile.recognition_accuracy, FallbackAccuracy)
                new_accuracy == NewAccuracy(current_accuracy, was_correct)
                current_fpr == OrElse(profile.false_positive_rate, 0)
                new_fpr == IF was_correct THEN profile.false_positive_rate
                           ELSE current_fpr + (Scale - current_fpr) \div AlphaInv
                updated == [profile EXCEPT !.recognition_accuracy = new_accuracy,
                                           !.false_positive_rate = new_fpr]
            IN  /\ vpDb' = Flush((vpDb \ found) \cup {updated}, vpPending)
                /\ vpPending' = EmptyPending
                /\ vpNext' = vpNext
                /\ ret' = [op |-> "update_recognition_accuracy", profile_id |-> pid,
                           was_correct |-> was_correct, result |-> TRUE,
                           before |-> profile.recognition_accuracy]

\* get_db(): finally db.close() -- the request's session ends and what it
\* never committed is rolled back
close_session ==
    /\ vpPending # EmptyPending
    /\ vpPending' = EmptyPending
    /\ ret' = [op |-> "close"]
    /\ UNCHANGED <<vpDb, vpNext>>
    /\ UNCHANGED notVoice

\* the tables a specification does not use stay empty
VoiceIdle ==
    /\ vpDb = {}
    /\ vpPending = EmptyPending
    /\ vpNext = 1

LearnIdle == profiles = {} /\ inflight = {}

QueueIdle ==
    /\ queue = <<>>
    /\ running = FALSE
    /\ threads = {}
    /\ outbox = <<>>

PredIdle ==
    /\ now = 0
    /\ habits = {}
    /\ tasks = {}
    /\ predictions = {}
    /\ predNext = 1

CtxIdle ==
    /\ contexts = {}
    /\ ctxNext = 1
    /\ commands = {}

InitVoice ==
    /\ LearnIdle
    /\ QueueIdle
    /\ VoiceIdle
    /\ PredIdle
    /\ CtxIdle
    /\ ret = NoRet

NextVoice ==
    \/ \E u \in Users : create_voice_profile(u)
    \/ \E pid \in AnyProfileId, u \in Users : delete_voice_profile(pid, u)
    \/ \E pid \in AnyProfileId, u \in Users : set_primary_profile(pid, u)
    \/ close_session

SpecVoice == InitVoice /\ [][NextVoice]_vars

----------------------------------------------------------------------------
\* Text: a str is a sequence of one-character strings

LowerCase ==
    "A" :> "a" @@ "B" :> "b" @@ "C" :> "c" @@ "D" :> "d" @@ "E" :> "e" @@ "F" :> "f" @@
    "G" :> "g" @@ "H" :> "h" @@ "I" :> "i" @@ "J" :> "j" @@ "K" :> "k" @@ "L" :> "l" @@
    "M" :> "m" @@ "N" :> "n" @@ "O" :> "o" @@ "P" :> "p" @@ "Q" :> "q" @@ "R" :> "r" @@
    "S" :> "s" @@ "T" :> "t" @@ "U" :> "u" @@ "V" :> "v" @@ "W" :> "w" @@ "X" :> "x" @@
    "Y" :> "y" @@ "Z" :> "z"

\* str.lower()
Lower(str) ==
    [i \in 1..Len(str) |-> IF str[i] \in DOMAIN LowerCase THEN LowerCase[str[i]] ELSE str[i]]

Whitespace == {" ", "\t", "\n"}

RECURSIVE LStrip(_)
LStrip(str) ==
    IF str # <<>> /\ Head(str) \in Whitespace THEN LStrip(Tail(str)) ELSE str

RECURSIVE RStrip(_)
RStrip(str) ==
    IF str # <<>> /\ str[Len(str)] \in Whitespace
    THEN RStrip(SubSeq(str, 1, Len(str) - 1)) ELSE str

\* str.strip()
Strip(str) == RStrip(LStrip(str))

\* needle in hay
Contains(hay, needle) ==
    \E i \in 1..(Len(hay) - Len(needle) + 1) : SubSeq(hay, i, i + Len(needle) - 1) = needle

\* column.ilike('%needle%')
ILike(hay, needle) == Contains(Lower(hay), Lower(needle))

\* str[:n]
Prefix(str, n) == SubSeq(str, 1, IF Len(str) < n THEN Len(str) ELSE n)

----------------------------------------------------------------------------
\* Time: the clock counts minutes; minute 0 is a Monday 00:00

Hour == 60
Day == 24 * Hour

\* datetime.hour
HourOf(t) == (t % Day) \div Hour
DayOf(t) == t \div Day
\* that date at 00:00
Midnight(t) == DayOf(t) * Day
\* datetime.weekday(): Monday is 0
Weekday(t) == DayOf(t) % 7
\* timedelta.days of (t2 - t1)
DaysBetween(t1, t2) == (t2 - t1) \div Day

_get_time_of_day(hour) ==
    IF 5 <= hour /\ hour < 12 THEN "morning"
    ELSE IF 12 <= hour /\ hour < 17 THEN "afternoon"
    ELSE IF 17 <= hour /\ hour < 21 THEN "evening"
    ELSE "night"

----------------------------------------------------------------------------
\* Sequences

Range(seq) == {seq[i] : i \in 1..Len(seq)}

\* every enumeration of a set as a list
Enumerations(S) ==
    {e \in [1..Cardinality(S) -> S] : \A i, j \in 1..Cardinality(S) : i # j => e[i] # e[j]}

RECURSIVE Concat(_)
\* the lists of a list of lists, one after the other
Concat(seqs) == IF seqs = <<>> THEN <<>> ELSE Head(seqs) \o Concat(Tail(seqs))

\* seq[:n] for n >= 0
Take(seq, n) == SubSeq(seq, 1, IF Len(seq) < n THEN Len(seq) ELSE n)

----------------------------------------------------------------------------
\* Task Predictor (src/learning/task_predictor.py)

\* self.min_confidence = 0.6
MinConfidence == (6 * Scale) \div 10

\* timedelta(hours=24) of the duplicate check
DedupWindow == 24 * Hour

\* (datetime.now() - last_task.created_at).days >= 7
StaleDays == 7

\* task.title[:20]
TitlePrefixLen == 20

Templates ==
    <<<<"W", "o", "r", "k", " ", "o", "n", " ">>,
      <<"C", "o", "m", "p", "l", "e", "t", "e", " ">>,
      <<"R", "e", "v", "i", "e", "w", " ">>,
      <<"U", "p", "d", "a", "t", "e", " ">>,
      <<"C", "h", "e", "c", "k", " ">>>>

\* _generate_task_from_keyword with random.choice picking template t
_generate_task_from_keyword(keyword, t) == Templates[t] \o keyword

\* query(UserHabit).filter(user_id == u, confidence >= min_confidence)
\*   .order_by(confidence.desc()): the orders the database may return
RelevantHabits(u) ==
    LET rows == {h \in habits : h.user_id = u /\ h.confidence >= MinConfidence}
    IN  {e \in Enumerations(rows) :
            \A i, j \in 1..Len(e) : i < j => e[i].confidence >= e[j].confidence}

\* the habits _predict_from_time_patterns turns into a prediction
TimeHabit(h, time_of_day) ==
    /\ h.time_of_day = time_of_day
    /\ h.habit_type = "recurring_task"
    /\ h.keyword # <<>>

\* pick[i] is the template random.choice returns for the i-th habit
_predict_from_time_patterns(u, hs, time_of_day, day_of_week, pick) ==
    Concat([i \in 1..Len(hs) |->
        IF TimeHabit(hs[i], time_of_day)
        THEN <<[task |-> _generate_task_from_keyword(hs[i].keyword, pick[i]),
                confidence |-> (hs[i].confidence * 9) \div 10,
                source |-> "time"]>>
        ELSE <<>>])

\* query(Task).filter(user_id == u, title.ilike('%keyword%'))
\*   .order_by(created_at.desc()).first()
LastTaskTimes(u, keyword) ==
    {t.created_at : t \in {x \in tasks : x.user_id = u /\ ILike(x.title, keyword)}}

Max(S) == CHOOSE m \in S : \A x \in S : x <= m

\* the habits _predict_from_recurring_tasks turns into a prediction: no task
\* with the keyword, or the latest one at least 7 days old
StaleHabit(u, h) ==
    /\ h.habit_type = "recurring_task"
    /\ LET times == LastTaskTimes(u, h.keyword)
       IN  times = {} \/ DaysBetween(Max(times), now) >= StaleDays

_predict_from_recurring_tasks(u, hs, pick) ==
    Concat([i \in 1..Len(hs) |->
        IF StaleHabit(u, hs[i])
        THEN <<[task |-> IF hs[i].has_title THEN hs[i].title
                         ELSE _generate_task_from_keyword(hs[i].keyword, pick[i]),
                confidence |-> (hs[i].confidence * 85) \div 100,
                source |-> "recurring"]>>
        ELSE <<>>])

\* tasks of the day one week ago, in stored (id) order
RECURSIVE ById(_)
ById(rows) ==
    IF rows = {} THEN <<>>
    ELSE LET first == CHOOSE r \in rows : \A x \in rows : r.id <= x.id
         IN  <<first>> \o ById(rows \ {first})

_predict_from_history(u, time_of_day) ==
    LET one_week_ago == now - 7 * Day
        \* .replace(hour=0, minute=0, second=0) and .replace(hour=23, minute=59, second=59)
        week_start == Midnight(one_week_ago)
        week_end == Midnight(one_week_ago) + 23 * Hour + 59
        similar_time_tasks == ById({t \in tasks : /\ t.user_id = u
                                                  /\ t.created_at >= week_start
                                                  /\ t.created_at <= week_end})
        this_week_start == Midnight(now) - Weekday(now) * Day
        similar_this_week(task) ==
            {t \in tasks : /\ t.user_id = u
                           /\ ILike(t.title, Prefix(task.title, TitlePrefixLen))
                           /\ t.created_at >= this_week_start}
    IN  Concat([i \in 1..Len(similar_time_tasks) |->
            IF similar_this_week(similar_time_tasks[i]) = {}
            THEN <<[task |-> similar_time_tasks[i].title,
                    confidence |-> (7 * Scale) \div 10,
                    source |-> "history"]>>
            ELSE <<>>])

\* _deduplicate_predictions comparing the titles as they are
RECURSIVE DeduplicateExact(_, _)
DeduplicateExact(preds, seen) ==
    IF preds = <<>> THEN <<>>
    ELSE LET task_lower == Head(preds).task
         IN  IF task_lower \notin seen
             THEN <<Head(preds)>> \o DeduplicateExact(Tail(preds), seen \cup {task_lower})
             ELSE DeduplicateExact(Tail(preds), seen)

RECURSIVE _deduplicate_predictions(_, _)
_deduplicate_predictions(preds, seen) ==
    IF preds = <<>> THEN <<>>
    ELSE LET task_lower == Strip(Lower(Head(preds).task))
         IN  IF task_lower \notin seen
             THEN <<Head(preds)>> \o _deduplicate_predictions(Tail(preds), seen \cup {task_lower})
             ELSE _deduplicate_predictions(Tail(preds), seen)

\* list.sort(key=confidence, reverse=True): stable, equal keys keep their order
RECURSIVE SortByConfidenceDesc(_)
SortByConfidenceDesc(preds) ==
    IF preds = <<>> THEN <<>>
    ELSE LET sorted == SortByConfidenceDesc(SubSeq(preds, 1, Len(preds) - 1))
             x == preds[Len(preds)]
             k == Cardinality({i \in 1..Len(sorted) : sorted[i].confidence >= x.confidence})
         IN  SubSeq(sorted, 1, k) \o <<x>> \o SubSeq(sorted, k + 1, Len(sorted))

\* the duplicate check of lines 57-62 with the window comparison reversed
ExistingOutsideWindow(u, task) ==
    {p \in predictions : /\ p.user_id = u
                         /\ p.predicted_task = task
                         /\ ~p.dismissed_by_user
                         /\ p.created_at <= now - DedupWindow}

\* query(TaskPrediction).filter(user_id == u, predicted_task == task,
\*   dismissed_by_user == False, created_at >= now - 24h)
Existing(u, task) ==
    {p \in predictions : /\ p.user_id = u
                         /\ p.predicted_task = task
                         /\ ~p.dismissed_by_user
                         /\ p.created_at >= now - DedupWindow}

\* TaskPrediction(...) with the column defaults
TaskPrediction(id, u, pred) ==
    [id |-> id, user_id |-> u, predicted_task |-> pred.task,
     confidence_score |-> pred.confidence,
     shown_to_user |-> FALSE, accepted_by_user |-> "null",
     dismissed_by_user |-> FALSE,
     created_at |-> now, accepted_at |-> -1]

\* the outcomes of random.choice(templates) for the habits that use one,
\* drawn from the first MaxTemplate templates
TemplateChoices(used, n) ==
    {pick \in [1..n -> 1..MaxTemplate] : \A i \in 1..n : i \notin used => pick[i] = 1}

predict_tasks(u, limit) ==
    \E hs \in RelevantHabits(u) :
    \E pick1 \in TemplateChoices({i \in 1..Len(hs) :
                        TimeHabit(hs[i], _get_time_of_day(HourOf(now)))}, Len(hs)) :
    \E pick2 \in TemplateChoices({i \in 1..Len(hs) :
                        StaleHabit(u, hs[i]) /\ ~hs[i].has_title}, Len(hs)) :
    LET current_time_of_day == _get_time_of_day(HourOf(now))
        current_day == Weekday(now)
        candidates ==
            _predict_from_time_patterns(u, hs, current_time_of_day, current_day, pick1)
            \o _predict_from_recurring_tasks(u, hs, pick2)
            \o _predict_from_history(u, current_time_of_day)
        unique_predictions == SortByConfidenceDesc(_deduplicate_predictions(candidates, {}))
        top == Take(unique_predictions, limit)
        fresh == SelectSeq(top, LAMBDA pred : Existing(u, pred.task) = {})
    IN  /\ predNext + Len(fresh) - 1 <= MaxPredictions
        /\ predictions' = predictions \cup
              {TaskPrediction(predNext + i - 1, u, fresh[i]) : i \in 1..Len(fresh)}
        /\ predNext' = predNext + Len(fresh)
        /\ ret' = [op |-> "predict_tasks", user_id |-> u, limit |-> limit,
                   result |-> top, candidates |-> Len(candidates)]
        /\ UNCHANGED <<now, habits, tasks>>
        /\ UNCHANGED notPred

\* the lookup of accept/dismiss without its user_id filter
PredictionById(u, prediction_id) ==
    {p \in predictions : p.id = prediction_id}

\* query(TaskPrediction).filter(id == prediction_id, user_id == u).first()
OwnedPrediction(u, prediction_id) ==
    {p \in predictions : p.id = prediction_id /\ p.user_id = u}

\* accept_prediction that leaves shown_to_user alone
AcceptedUnshown(prediction) ==
    [prediction EXCEPT !.accepted_by_user = "true", !.accepted_at = now]

\* lines 239-241
Accepted(prediction) ==
    [prediction EXCEPT !.accepted_by_user = "true", !.accepted_at = now,
                       !.shown_to_user = TRUE]

\* dismiss_prediction that takes an acceptance back
DismissedRevoking(prediction) ==
    [prediction EXCEPT !.dismissed_by_user = TRUE, !.shown_to_user = TRUE,
                       !.accepted_by_user = "false"]

\* dismiss_prediction that leaves shown_to_user alone
DismissedUnshown(prediction) == [prediction EXCEPT !.dismissed_by_user = TRUE]

\* lines 257-258
Dismissed(prediction) ==
    [prediction EXCEPT !.dismissed_by_user = TRUE, !.shown_to_user = TRUE]

accept_prediction(u, prediction_id) ==
    LET found == OwnedPrediction(u, prediction_id) IN
    /\ predictions' = (predictions \ found) \cup {Accepted(p) : p \in found}
    /\ ret' = [op |-> "accept_prediction", user_id |-> u,
               prediction_id |-> prediction_id, result |-> (found # {})]
    /\ UNCHANGED <<now, habits, tasks, predNext>>
    /\ UNCHANGED notPred

dismiss_prediction(u, prediction_id) ==
    LET found == OwnedPrediction(u, prediction_id) IN
    /\ predictions' = (predictions \ found) \cup {Dismissed(p) : p \in found}
    /\ ret' = [op |-> "dismiss_prediction", user_id |-> u,
               prediction_id |-> prediction_id, result |-> (found # {})]
    /\ UNCHANGED <<now, habits, tasks, predNext>>
    /\ UNCHANGED notPred

\* ORDER BY confidence_score DESC: rows with equal scores come in any order
OrderByConfidenceDesc(rows) ==
    {e \in Enumerations(rows) :
        \A i, j \in 1..Len(e) : i < j => e[i].confidence_score >= e[j].confidence_score}

get_predictions_for_user(u, include_dismissed) ==
    LET query == {p \in predictions : /\ p.user_id = u
                                      /\ p.shown_to_user = FALSE
                                      /\ ~include_dismissed => p.dismissed_by_user = FALSE}
    IN  \E ps \in OrderByConfidenceDesc(query) :
            /\ ret' = [op |-> "get_predictions_for_user", user_id |-> u,
                       include_dismissed |-> include_dismissed,
                       result |-> [i \in 1..Len(ps) |->
                                     [id |-> ps[i].id, task |-> ps[i].predicted_task,
                                      confidence |-> ps[i].confidence_score,
                                      created_at |-> ps[i].created_at]]]
            /\ UNCHANGED predVars
            /\ UNCHANGED notPred

\* The clock moves between calls, half a day at a time
HalfDay == 12 * Hour

\* Tuesday of the second week, 08:00
StartTime == 8 * Day + 8 * Hour

tick ==
    /\ now + HalfDay <= StartTime + MaxTicks * HalfDay
    /\ now' = now + HalfDay
    /\ ret' = [op |-> "tick"]
    /\ UNCHANGED <<habits, tasks, predictions, predNext>>
    /\ UNCHANGED notPred

Habit(id, u, type, confidence, time_of_day, keyword, has_title, title) ==
    [id |-> id, user_id |-> u, habit_type |-> type, confidence |-> confidence,
     time_of_day |-> time_of_day, keyword |-> keyword,
     has_title |-> has_title, title |-> title]

\* stored habits the predictor may find: learnt from patterns (no title in
\* pattern_data) or from a created task (with its title), of either user
HabitRows ==
    {Habit(1, "u1", "recurring_task", (8 * Scale) \div 10, "morning",
           <<"m", "a", "i", "l">>, FALSE, <<>>),
     Habit(2, "u1", "recurring_task", (9 * Scale) \div 10, "afternoon",
           <<"r", "e", "n", "t">>, TRUE, <<"P", "a", "y", " ", "R", "e", "n", "t">>),
     Habit(3, "u1", "time_based", (9 * Scale) \div 10, "morning", <<>>, FALSE, <<>>),
     Habit(4, "u2", "recurring_task", (5 * Scale) \div 10, "morning",
           <<"m", "a", "i", "l">>, FALSE, <<>>)}

Task(id, u, title, priority, created_at) ==
    [id |-> id, user_id |-> u, title |-> title, priority |-> priority,
     created_at |-> created_at]

\* stored tasks: created on the Tuesday one week before StartTime, or on the
\* Monday of the current week
TaskRows ==
    {Task(1, "u1", <<"W", "o", "r", "k", " ", "o", "n", " ", "m", "a", "i", "l">>, "medium", Day + 9 * Hour),
     Task(2, "u1", <<" ", "W", "o", "r", "k", " ", "O", "n", " ", "M", "a", "i", "l">>, "medium", Day + 10 * Hour),
     Task(3, "u1", <<"w", "o", "r", "k", " ", "o", "n", " ", "M", "A", "I", "L", " ">>, "medium", 7 * Day + 2 * Hour),
     Task(4, "u2", <<"W", "o", "r", "k", " ", "o", "n", " ", "m", "a", "i", "l">>, "medium", Day + 9 * Hour)}

\* the habits that predict_tasks must leave out are always stored
FilteredHabits == {h \in HabitRows : h.habit_type # "recurring_task" \/ h.confidence < MinConfidence}

\* Lifecycle of the stored predictions over one stored history: both users
\* created the same task a week ago, u1 has a habit learnt from a task title
InitPredictor ==
    /\ LearnIdle
    /\ QueueIdle
    /\ VoiceIdle
    /\ now = StartTime
    /\ habits = {h \in HabitRows : h.id \in {2, 3, 4}}
    /\ tasks = {t \in TaskRows : t.id \in {1, 4}}
    /\ predictions = {}
    /\ predNext = 1
    /\ CtxIdle
    /\ ret = NoRet

NextPredictor ==
    \/ \E u \in Users, limit \in 0..MaxLimit : predict_tasks(u, limit)
    \/ \E u \in Users, id \in 1..MaxPredictions : accept_prediction(u, id)
    \/ \E u \in Users, id \in 1..MaxPredictions : dismiss_prediction(u, id)
    \/ tick

SpecPredictor == InitPredictor /\ [][NextPredictor]_vars

\* the predictor with the read of the stored predictions
NextLifecycle ==
    \/ NextPredictor
    \/ \E u \in Users, include_dismissed \in BOOLEAN :
          get_predictions_for_user(u, include_dismissed)

SpecLifecycle == InitPredictor /\ [][NextLifecycle]_vars

\* predict_tasks over every stored history
InitHistories ==
    /\ LearnIdle
    /\ QueueIdle
    /\ VoiceIdle
    /\ now = StartTime
    /\ \E hs \in SUBSET (HabitRows \ FilteredHabits) : habits = hs \cup FilteredHabits
    /\ tasks \in SUBSET TaskRows
    /\ predictions = {}
    /\ predNext = 1
    /\ CtxIdle
    /\ ret = NoRet

NextHistories ==
    \/ \E u \in Users, limit \in 0..MaxLimit : predict_tasks(u, limit)
    \/ tick

SpecHistories == InitHistories /\ [][NextHistories]_vars

\* Accuracy feedback on one stored profile whose recognition_accuracy starts
\* anywhere in [0,1]
InitAccuracy ==
    /\ LearnIdle
    /\ QueueIdle
    /\ \E a \in 0..Scale :
          vpDb = {[VoiceProfile(1, "u1", TRUE) EXCEPT !.recognition_accuracy = a]}
    /\ vpPending = EmptyPending
    /\ vpNext = 2
    /\ PredIdle
    /\ CtxIdle
    /\ ret = NoRet

NextAccuracy ==
    \E pid \in 0..1, was_correct \in BOOLEAN : update_recognition_accuracy(pid, was_correct)

SpecAccuracy == InitAccuracy /\ [][NextAccuracy]_vars

----------------------------------------------------------------------------
\* Context Manager (src/learning/context_manager.py)

MaxContexts == 4
MaxCtxLimit == 2
MaxCtxTicks == 2

\* Python's None
None == "None"

\* self.default_context_window = 10
default_context_window == 10
\* self.context_timeout_minutes = 30
context_timeout_minutes == 30

SessionIds == {"s1"}

\* `if session_id:` on an Optional[str]
Truthy(x) == x \notin {None, ""}

\* mood_confidence of a row saved without mood data: NULL
NullConfidence == -1

\* mood_data: Optional[Dict] = None, read with mood_data.get(...)
NoMoodData == [mood |-> None, confidence |-> NullConfidence]

ConversationContext(id, u, session_id, intent, language, channel, mood_data) ==
    [id |-> id, user_id |-> u, session_id |-> session_id, intent |-> intent,
     language |-> language, channel |-> channel, detected_mood |-> mood_data.mood,
     mood_confidence |-> mood_data.confidence, timestamp |-> now]

save_context(u, intent, language, channel, session_id, mood_data) ==
    /\ ctxNext <= MaxContexts
    /\ contexts' = contexts \cup
           {ConversationContext(ctxNext, u, session_id, intent, language, channel, mood_data)}
    /\ ctxNext' = ctxNext + 1
    /\ ret' = [op |-> "save_context", result |-> ctxNext]
    /\ UNCHANGED now
    /\ UNCHANGED notCtx

\* the rows the query of get_recent_context selects before ORDER BY and LIMIT
RecentContextQuery(u, session_id, include_expired) ==
    LET cutoff == now - context_timeout_minutes
    IN  {c \in contexts : /\ c.user_id = u
                          /\ Truthy(session_id) => c.session_id = session_id
                          /\ ~include_expired => c.timestamp >= cutoff}

\* ORDER BY timestamp DESC: rows with equal timestamps come in any order
OrderByTimestampDesc(rows) ==
    {e \in Enumerations(rows) :
        \A i, j \in 1..Len(e) : i < j => e[i].timestamp >= e[j].timestamp}

\* the selected rows left newest first
NotReversed(seq) == seq

\* list(reversed(contexts))
Reversed(seq) == [i \in 1..Len(seq) |-> seq[Len(seq) + 1 - i]]

ContextDict(c) ==
    [id |-> c.id, intent |-> c.intent, language |-> c.language, channel |-> c.channel,
     mood |-> c.detected_mood, timestamp |-> c.timestamp]

\* the lists get_recent_context can return
RecentContexts(u, limit, session_id, include_expired) ==
    \* limit = limit or self.default_context_window
    LET effective == IF limit # 0 THEN limit ELSE default_context_window
    IN  {[i \in 1..Len(Take(ordered, effective)) |->
             ContextDict(Reversed(Take(ordered, effective))[i])] :
         ordered \in OrderByTimestampDesc(RecentContextQuery(u, session_id, include_expired))}

get_recent_context(u, limit, session_id, include_expired) ==
    \E result \in RecentContexts(u, limit, session_id, include_expired) :
        /\ ret' = [op |-> "get_recent_context", user_id |-> u, limit |-> limit,
                   session_id |-> session_id, include_expired |-> include_expired,
                   result |-> result]
        /\ UNCHANGED <<now, ctxVars>>
        /\ UNCHANGED notCtx

\* The clock moves between calls, twenty minutes at a time
CtxTick == Hour \div 3

tick_minutes ==
    /\ now + CtxTick <= MaxCtxTicks * CtxTick
    /\ now' = now + CtxTick
    /\ ret' = [op |-> "tick_minutes"]
    /\ UNCHANGED ctxVars
    /\ UNCHANGED notCtx

\* the first user talks inside and outside a session, the others outside
SessionsOf(u) == IF u = "u1" THEN {None} \cup SessionIds ELSE {None}

InitContext ==
    /\ LearnIdle
    /\ QueueIdle
    /\ VoiceIdle
    /\ PredIdle
    /\ CtxIdle
    /\ ret = NoRet

NextContext ==
    \/ \E u \in Users : \E session_id \in SessionsOf(u) :
          save_context(u, None, "en", "text", session_id, NoMoodData)
    \/ \E u \in Users, limit \in 0..MaxCtxLimit, session_id \in {None} \cup SessionIds,
          include_expired \in BOOLEAN :
          get_recent_context(u, limit, session_id, include_expired)
    \/ tick_minutes

SpecContext == InitContext /\ [][NextContext]_vars

----------------------------------------------------------------------------
\* Pattern Recognizer (src/learning/pattern_recognizer.py)

\* self.min_occurrences = 3
min_occurrences == 3
\* self.confidence_threshold = 0.6
confidence_threshold == (6 * Scale) \div 10
\* days: int = 30
AnalysisDays == 30

\* a clamp that lets the raw ratio through
NoClamp(a, b) == a

Min(a, b) == IF a <= b THEN a ELSE b

\* count / total as a fixed-point number
Ratio(count, total) == (count * Scale) \div total

RECURSIVE DistinctInOrder(_)
\* the distinct elements of a list in the order of their first occurrence:
\* the key order of a dict, a defaultdict or a Counter filled from the list
DistinctInOrder(seq) ==
    IF seq = <<>> THEN <<>>
    ELSE LET front == DistinctInOrder(SubSeq(seq, 1, Len(seq) - 1))
             x == seq[Len(seq)]
         IN  IF x \in Range(front) THEN front ELSE Append(front, x)

CountIn(seq, x) == Cardinality({i \in 1..Len(seq) : seq[i] = x})

\* Counter(seq).items()
CounterItems(seq) ==
    LET keys == DistinctInOrder(seq)
    IN  [i \in 1..Len(keys) |-> [key |-> keys[i], count |-> CountIn(seq, keys[i])]]

RECURSIVE OrderDesc(_)
\* the positions of a list of numbers, largest number first, equal numbers in
\* their order in the list: sorted(..., reverse=True)
OrderDesc(nums) ==
    IF nums = <<>> THEN <<>>
    ELSE LET n == Len(nums)
             front == OrderDesc(SubSeq(nums, 1, n - 1))
             k == Cardinality({i \in 1..Len(front) : nums[front[i]] >= nums[n]})
         IN  SubSeq(front, 1, k) \o <<n>> \o SubSeq(front, k + 1, Len(front))

SortDescBy(seq, nums) ==
    LET order == OrderDesc(nums)
    IN  [i \in 1..Len(seq) |-> seq[order[i]]]

\* Counter(seq).most_common()
most_common(seq) ==
    LET items == CounterItems(seq)
    IN  SortDescBy(items, [i \in 1..Len(items) |-> items[i].count])

Digits == {"0", "1", "2", "3", "4", "5", "6", "7", "8", "9"}

\* the characters \w matches
WordChars == DOMAIN LowerCase \cup {LowerCase[c] : c \in DOMAIN LowerCase} \cup Digits \cup {"_"}

RECURSIVE FindWords(_, _)
\* re.findall(r'\b\w+\b', str): the maximal runs of word characters; word is
\* the run being read
FindWords(str, word) ==
    LET done == IF word = <<>> THEN <<>> ELSE <<word>>
    IN  IF str = <<>> THEN done
        ELSE IF Head(str) \in WordChars THEN FindWords(Tail(str), Append(word, Head(str)))
        ELSE done \o FindWords(Tail(str), <<>>)

stop_words ==
    {<<"a">>, <<"a", "n">>, <<"t", "h", "e">>, <<"a", "n", "d">>, <<"o", "r">>,
     <<"b", "u", "t">>, <<"i", "n">>, <<"o", "n">>, <<"a", "t">>, <<"t", "o">>,
     <<"f", "o", "r">>, <<"o", "f">>, <<"w", "i", "t", "h">>, <<"b", "y">>,
     <<"f", "r", "o", "m">>, <<"a", "s">>, <<"i", "s">>, <<"w", "a", "s">>,
     <<"a", "r", "e">>, <<"w", "e", "r", "e">>, <<"b", "e">>, <<"b", "e", "e", "n">>,
     <<"b", "e", "i", "n", "g">>, <<"h", "a", "v", "e">>, <<"h", "a", "s">>,
     <<"h", "a", "d">>, <<"d", "o">>, <<"d", "o", "e", "s">>, <<"d", "i", "d">>,
     <<"w", "i", "l", "l">>, <<"w", "o", "u", "l", "d">>, <<"s", "h", "o", "u", "l", "d">>,
     <<"c", "o", "u", "l", "d">>, <<"m", "a", "y">>, <<"m", "i", "g", "h", "t">>,
     <<"m", "u", "s", "t">>, <<"c", "a", "n">>}

_extract_keywords(text) ==
    SelectSeq(FindWords(Lower(text), <<>>), LAMBDA w : w \notin stop_words /\ Len(w) > 3)

_extract_common_words(texts) ==
    LET all_keywords == Concat([i \in 1..Len(texts) |-> _extract_keywords(texts[i])])
        counts == Take(most_common(all_keywords), 10)
    IN  [i \in 1..Len(counts) |-> counts[i].key]

\* strftime("%A").lower()
DayNames == <<"monday", "tuesday", "wednesday", "thursday", "friday", "saturday", "sunday">>

\* the groups of a defaultdict(list) filled in the order of rows, as a list
\* of [key, rows]; keys[i] is the key of rows[i]
GroupBy(rows, keys) ==
    LET ks == DistinctInOrder(keys)
    IN  [g \in 1..Len(ks) |->
            [key |-> ks[g],
             rows |-> LET idx == SelectSeq([i \in 1..Len(rows) |-> i], LAMBDA i : keys[i] = ks[g])
                      IN  [j \in 1..Len(idx) |-> rows[idx[j]]]]]

\* a list of optional entries without the missing ones
Present(entries) ==
    LET kept == SelectSeq(entries, LAMBDA e : e # <<>>)
    IN  [i \in 1..Len(kept) |-> kept[i][1]]

_analyze_time_patterns(ts) ==
    LET time_groups == GroupBy(ts, [i \in 1..Len(ts) |-> _get_time_of_day(HourOf(ts[i].created_at))])
        day_groups == GroupBy(ts, [i \in 1..Len(ts) |-> DayNames[Weekday(ts[i].created_at) + 1]])
        time_pattern(g) ==
            IF Len(g.rows) >= min_occurrences
            THEN <<[type |-> "time_based", time_of_day |-> g.key, frequency |-> Len(g.rows),
                    confidence |-> Min(Ratio(Len(g.rows), Len(ts)), Scale),
                    common_keywords |->
                        Take(_extract_common_words([i \in 1..Len(g.rows) |-> Lower(g.rows[i].title)]), 5)]>>
            ELSE <<>>
        \* len(day_tasks) / (len(tasks) / 7)
        day_pattern(g) ==
            IF Len(g.rows) >= min_occurrences
            THEN <<[type |-> "day_based", day_of_week |-> g.key, frequency |-> Len(g.rows),
                    confidence |-> Min(Ratio(Len(g.rows) * 7, Len(ts)), Scale)]>>
            ELSE <<>>
    IN  Present([g \in 1..Len(time_groups) |-> time_pattern(time_groups[g])])
        \o Present([g \in 1..Len(day_groups) |-> day_pattern(day_groups[g])])

_analyze_title_patterns(ts) ==
    LET all_keywords == Concat([i \in 1..Len(ts) |-> _extract_keywords(ts[i].title)])
        keyword_counts == Take(most_common(all_keywords), 10)
        pattern(kc) ==
            IF kc.count >= min_occurrences
            THEN LET related_tasks == SelectSeq(ts, LAMBDA t : Contains(Lower(t.title), kc.key))
                     sample == Take(related_tasks, 3)
                 IN  <<[type |-> "recurring_task", keyword |-> kc.key, frequency |-> kc.count,
                        confidence |-> Min(Ratio(kc.count, Len(ts)), Scale),
                        sample_titles |-> [i \in 1..Len(sample) |-> sample[i].title]]>>
            ELSE <<>>
    IN  Present([k \in 1..Len(keyword_counts) |-> pattern(keyword_counts[k])])

_analyze_priority_patterns(ts) ==
    LET priority_counts == CounterItems([i \in 1..Len(ts) |-> ts[i].priority])
        pattern(pc) ==
            IF pc.count >= min_occurrences
            THEN <<[type |-> "priority_preference", priority |-> pc.key, frequency |-> pc.count,
                    confidence |-> Ratio(pc.count, Len(ts))]>>
            ELSE <<>>
    IN  Present([k \in 1..Len(priority_counts) |-> pattern(priority_counts[k])])

analyze_task_patterns(u) ==
    LET cutoff_date == now - AnalysisDays * Day
        ts == ById({t \in tasks : t.user_id = u /\ t.created_at >= cutoff_date})
    IN  _analyze_time_patterns(ts) \o _analyze_title_patterns(ts) \o _analyze_priority_patterns(ts)

\* executed_at = Column(DateTime, nullable=True): NULL
NullTime == -1

CommandHistory(id, u, command_type, executed_at) ==
    [id |-> id, user_id |-> u, command_type |-> command_type, executed_at |-> executed_at]

analyze_command_patterns(u) ==
    LET cutoff_date == now - AnalysisDays * Day
        \* a comparison with NULL selects nothing
        cs == ById({c \in commands : /\ c.user_id = u
                                      /\ c.executed_at # NullTime
                                      /\ c.executed_at >= cutoff_date})
        command_counts == most_common([i \in 1..Len(cs) |-> cs[i].command_type])
        usage(cc) ==
            IF cc.count >= min_occurrences
            THEN <<[type |-> "command_usage", command_type |-> cc.key, frequency |-> cc.count,
                    confidence |-> IF cs # <<>> THEN Ratio(cc.count, Len(cs)) ELSE 0]>>
            ELSE <<>>
        time_groups == GroupBy(cs, [i \in 1..Len(cs) |-> _get_time_of_day(HourOf(cs[i].executed_at))])
        time_command(g) ==
            IF Len(g.rows) >= min_occurrences
            THEN LET common_types ==
                         Take(most_common([i \in 1..Len(g.rows) |-> g.rows[i].command_type]), 3)
                 IN  <<[type |-> "time_command", time_of_day |-> g.key, frequency |-> Len(g.rows),
                        common_commands |->
                            [i \in 1..Len(common_types) |->
                                [type |-> common_types[i].key, count |-> common_types[i].count]],
                        confidence |-> IF cs # <<>> THEN Ratio(Len(g.rows), Len(cs)) ELSE 0]>>
            ELSE <<>>
    IN  Present([k \in 1..Len(command_counts) |-> usage(command_counts[k])])
        \o Present([g \in 1..Len(time_groups) |-> time_command(time_groups[g])])

analyze_conversation_patterns(u) ==
    LET cutoff_date == now - AnalysisDays * Day
        xs == ById({c \in contexts : c.user_id = u /\ c.timestamp >= cutoff_date})
        language_counts == CounterItems([i \in 1..Len(xs) |-> xs[i].language])
        language(lc) ==
            [type |-> "language_preference", language |-> lc.key, frequency |-> lc.count,
             confidence |-> Ratio(lc.count, Len(xs))]
        channel_counts == CounterItems([i \in 1..Len(xs) |-> xs[i].channel])
        channel(cc) ==
            IF cc.count >= min_occurrences
            THEN <<[type |-> "channel_preference", channel |-> cc.key, frequency |-> cc.count,
                    confidence |-> Ratio(cc.count, Len(xs))]>>
            ELSE <<>>
        with_intent == SelectSeq(xs, LAMBDA c : Truthy(c.intent))
        intent_counts == Take(most_common([i \in 1..Len(with_intent) |-> with_intent[i].intent]), 5)
        intent(ic) ==
            IF ic.count >= min_occurrences
            THEN <<[type |-> "intent_pattern", intent |-> ic.key, frequency |-> ic.count,
                    confidence |-> Ratio(ic.count, Len(xs))]>>
            ELSE <<>>
    IN  IF xs = <<>> THEN <<>>
        ELSE [k \in 1..Len(language_counts) |-> language(language_counts[k])]
             \o Present([k \in 1..Len(channel_counts) |-> channel(channel_counts[k])])
             \o Present([k \in 1..Len(intent_counts) |-> intent(intent_counts[k])])

\* a filter that keeps every pattern
AnyConfidence(p) == TRUE

\* p.get('confidence', 0) >= self.confidence_threshold
AboveThreshold(p) == p.confidence >= confidence_threshold

\* what detect_new_patterns returns, and how many patterns it filtered
DetectedPatterns(u) ==
    LET all_patterns == analyze_task_patterns(u) \o analyze_command_patterns(u)
                        \o analyze_conversation_patterns(u)
        filtered_patterns == SelectSeq(all_patterns, AboveThreshold)
        sorted == SortDescBy(filtered_patterns,
                             [i \in 1..Len(filtered_patterns) |-> filtered_patterns[i].confidence])
    IN  [result |-> sorted, candidates |-> Len(all_patterns)]

detect_new_patterns(u) ==
    /\ ret' = [op |-> "detect_new_patterns", user_id |-> u,
               result |-> DetectedPatterns(u).result,
               candidates |-> DetectedPatterns(u).candidates]
    /\ UNCHANGED <<voiceVars, predVars, ctxVars, commands, queueVars, learnVars>>

\* The history the recognizer reads, 40 days after the clock's origin: a
\* Saturday, 08:00
PatternTime == 40 * Day + 8 * Hour

PatternTasks ==
    {Task(11, "u1", <<"b", "u", "y", " ", "g", "r", "o", "c", "e", "r", "i", "e", "s">>, "medium", 37 * Day + 7 * Hour),
     Task(12, "u1", <<"b", "u", "y", " ", "m", "i", "l", "k">>, "medium", 38 * Day + 7 * Hour),
     Task(13, "u1", <<"b", "u", "y", " ", "b", "r", "e", "a", "d">>, "medium", 39 * Day + 7 * Hour),
     Task(14, "u1", <<"c", "a", "l", "l", " ", "m", "o", "m">>, "high", 39 * Day + 18 * Hour),
     Task(15, "u1", <<"C", "a", "l", "l", " ", "m", "o", "m", " ", "w", "i", "t", "h", " ", "n", "e", "w", "s">>, "high", 38 * Day + 19 * Hour),
     Task(16, "u1", <<"C", "A", "L", "L", " ", "M", "O", "M">>, "high", 39 * Day + 20 * Hour)}

\* always stored: a task older than the analysis window and another user's task
OtherTasks ==
    {Task(17, "u1", <<"c", "a", "l", "l", " ", "m", "o", "m">>, "high", 5 * Day + 18 * Hour),
     Task(18, "u2", <<"b", "u", "y", " ", "m", "i", "l", "k">>, "medium", 39 * Day + 7 * Hour)}

PatternCommands ==
    {CommandHistory(3, "u1", "task", 38 * Day + 8 * Hour),
     CommandHistory(4, "u1", "file", 38 * Day + 14 * Hour)}

\* always stored: two commands of the morning, a command that never executed
\* and another user's command
OtherCommands ==
    {CommandHistory(1, "u1", "task", 39 * Day + 7 * Hour),
     CommandHistory(2, "u1", "task", 39 * Day + 7 * Hour + 30),
     CommandHistory(5, "u1", "task", NullTime),
     CommandHistory(6, "u2", "system", 39 * Day + 7 * Hour)}

Conversation(id, u, intent, language, channel, timestamp) ==
    [ConversationContext(id, u, None, intent, language, channel, NoMoodData)
        EXCEPT !.timestamp = timestamp]

PatternContexts ==
    {Conversation(2, "u1", "create_task", "en", "text", 39 * Day + 7 * Hour + 10),
     Conversation(3, "u1", "create_task", "en", "text", 38 * Day),
     Conversation(4, "u1", None, "ur", "voice", 38 * Day + Hour)}

\* always stored: a recent conversation, a conversation older than the
\* analysis window and another user's conversation
OtherContexts ==
    {Conversation(1, "u1", "create_task", "en", "text", 39 * Day + 7 * Hour),
     Conversation(5, "u1", "create_task", "en", "text", Day),
     Conversation(6, "u2", None, "ur", "voice", 39 * Day)}

InitPatterns ==
    /\ LearnIdle
    /\ QueueIdle
    /\ VoiceIdle
    /\ now = PatternTime
    /\ habits = {}
    /\ \E ts \in SUBSET PatternTasks : tasks = ts \cup OtherTasks
    /\ predictions = {}
    /\ predNext = 1
    /\ \E xs \in SUBSET PatternContexts : contexts = xs \cup OtherContexts
    /\ ctxNext = 7
    /\ \E cs \in SUBSET PatternCommands : commands = cs \cup OtherCommands
    /\ ret = NoRet

NextPatterns == \E u \in Users : detect_new_patterns(u)

SpecPatterns == InitPatterns /\ [][NextPatterns]_vars

\* the three analyses that detect_new_patterns calls, before its filter
analyze_patterns(u) ==
    /\ ret' = [op |-> "analyze_patterns", user_id |-> u,
               task |-> analyze_task_patterns(u),
               command |-> analyze_command_patterns(u),
               conversation |-> analyze_conversation_patterns(u)]
    /\ UNCHANGED <<voiceVars, predVars, ctxVars, commands, queueVars, learnVars>>

NextAnalysis == \E u \in Users : analyze_patterns(u)

SpecAnalysis == InitPatterns /\ [][NextAnalysis]_vars

----------------------------------------------------------------------------
\* Mood Detector (src/learning/mood_detector.py)

MaxMoodTicks == 1

Moods == {"happy", "sad", "angry", "anxious", "excited", "neutral"}

\* days: int = 7
MoodDays == 7

\* the lists get_mood_history may return: the user's rows of the last days
\* that carry a mood, ORDER BY timestamp, rows with equal timestamps in any
\* order
get_mood_history(u, days) ==
    LET cutoff == now - days * Day
        rows == {c \in contexts : /\ c.user_id = u
                                  /\ c.timestamp >= cutoff
                                  /\ c.detected_mood # None}
        ordered == {e \in Enumerations(rows) :
                       \A i, j \in 1..Len(e) : i < j => e[i].timestamp <= e[j].timestamp}
    IN  {[i \in 1..Len(e) |-> [mood |-> e[i].detected_mood, confidence |-> e[i].mood_confidence,
                               timestamp |-> e[i].timestamp, channel |-> e[i].channel]] :
            e \in ordered}

RECURSIVE Sum(_)
Sum(nums) == IF nums = <<>> THEN 0 ELSE Head(nums) + Sum(Tail(nums))

\* the first three entries instead of the last three
FirstThree(seq) == SubSeq(seq, 1, 3)

\* moods[-3:] of a list of at least three entries
LastThree(seq) == SubSeq(seq, Len(seq) - 2, Len(seq))

analyze_mood_trend(mood_history) ==
    LET moods == [i \in 1..Len(mood_history) |-> mood_history[i].mood]
        confidences == [i \in 1..Len(mood_history) |-> mood_history[i].confidence]
        dominant_mood == most_common(moods)[1].key
        changes == Cardinality({i \in 2..Len(moods) : moods[i] # moods[i - 1]})
        stability == IF Len(moods) > 1 THEN Scale - Ratio(changes, Len(moods)) ELSE Scale
        recent_moods == LastThree(moods)
        trend ==
            IF Len(mood_history) >= 3
            THEN IF \A i \in 1..3 : recent_moods[i] \in {"happy", "excited"} THEN "improving"
                 ELSE IF \A i \in 1..3 : recent_moods[i] \in {"sad", "anxious", "angry"}
                      THEN "declining"
                      ELSE "stable"
            ELSE "insufficient_data"
        result ==
            IF mood_history = <<>>
            THEN [trend |-> "unknown", avg_confidence |-> 0, dominant_mood |-> "neutral",
                  mood_stability |-> 0]
            ELSE [trend |-> trend, avg_confidence |-> Sum(confidences) \div Len(confidences),
                  dominant_mood |-> dominant_mood, mood_stability |-> stability,
                  mood_distribution |-> CounterItems(moods),
                  total_samples |-> Len(mood_history)]
    IN  result

\* POST /mood/analyze-trend
analyze_mood_trend_endpoint(u) ==
    \E mood_history \in get_mood_history(u, MoodDays) :
        /\ ret' = [op |-> "analyze_mood_trend", user_id |-> u, mood_history |-> mood_history,
                   result |-> analyze_mood_trend(mood_history)]
        /\ UNCHANGED <<now, ctxVars>>
        /\ UNCHANGED notCtx

\* the clock moves between two conversations
tick_mood ==
    /\ now + CtxTick <= MaxMoodTicks * CtxTick
    /\ now' = now + CtxTick
    /\ ret' = [op |-> "tick_mood"]
    /\ UNCHANGED ctxVars
    /\ UNCHANGED notCtx

InitMood ==
    /\ LearnIdle
    /\ QueueIdle
    /\ VoiceIdle
    /\ PredIdle
    /\ CtxIdle
    /\ ret = NoRet

NextMood ==
    \/ \E mood \in Moods \cup {None} :
          save_context("u1", None, "en", "voice", None,
                       IF mood = None THEN NoMoodData ELSE [mood |-> mood, confidence |-> Scale])
    \/ \E u \in Users : analyze_mood_trend_endpoint(u)
    \/ tick_mood

SpecMood == InitMood /\ [][NextMood]_vars

----------------------------------------------------------------------------
\* Habit Learner (src/learning/habit_learner.py)
\*
\* A filter on pattern_data[key].astext selects the rows whose JSON
\* pattern_data has the member key with that text.  A handler works in one
\* unit of work of the session: its queries read the stored rows and hand out
\* the session's objects (with the assignments made so far), the rows it
\* adds stay invisible to its queries, and commit() stores both.

MaxFrequency == 5
MaxHabits == 5
MaxCalls == 2

habit_threshold == (7 * Scale) \div 10

\* confidence=0.5 of a habit created from an action
InitialConfidence == Scale \div 2

\* habit.confidence + 0.05
ConfidenceStep == Scale \div 20

\* keywords[:3]
TopKeywords == 3

\* d.get(key, default)
Get(d, key, default) == IF key \in DOMAIN d THEN d[key] ELSE default

\* a UserHabit object before its INSERT gives it an id
UserHabit(u, habit_type, pattern_data, frequency, confidence, time_of_day, day_of_week, last_occurrence) ==
    [id |-> 0, user_id |-> u, habit_type |-> habit_type, pattern_data |-> pattern_data,
     frequency |-> frequency, confidence |-> confidence, time_of_day |-> time_of_day,
     day_of_week |-> day_of_week, last_occurrence |-> last_occurrence]

\* a unit of work over the stored rows
Begin(stored) == [rows |-> stored, added |-> <<>>]

\* db.query(UserHabit).filter(user_id, habit_type, pattern_data[key].astext
\* == value).first(): the set of the row found, empty when there is none
FirstHabit(session, u, habit_type, key, value) ==
    LET found == {h \in session.rows : /\ h.user_id = u
                                       /\ h.habit_type = habit_type
                                       /\ key \in DOMAIN h.pattern_data
                                       /\ h.pattern_data[key] = value}
    IN  {h \in found : \A x \in found : h.id <= x.id}

\* an assignment to attributes of a loaded object
Assigned(session, habit, changed) ==
    [session EXCEPT !.rows = (@ \ {habit}) \cup {changed}]

\* db.add(habit)
Added(session, habit) == [session EXCEPT !.added = Append(@, habit)]

\* db.commit(): the INSERTs take the ids after the largest stored one
Commit(session) ==
    LET last == Max({0} \cup {h.id : h \in session.rows})
    IN  session.rows
        \cup {[session.added[i] EXCEPT !.id = last + i] : i \in 1..Len(session.added)}

\* min(habit.confidence + 0.05, 1.0) without the min
Uncapped(a, b) == a

Capped(a, b) == Min(a, b)

\* habit.frequency += 1; habit.confidence = min(habit.confidence + 0.05, 1.0)
Reinforced(habit) ==
    [habit EXCEPT !.frequency = @ + 1,
                  !.confidence = Capped(@ + ConfidenceStep, Scale)]

HabitLearner_stop_words ==
    {<<"a">>, <<"a", "n">>, <<"t", "h", "e">>, <<"a", "n", "d">>, <<"o", "r">>,
     <<"b", "u", "t">>, <<"i", "n">>, <<"o", "n">>, <<"a", "t">>, <<"t", "o">>,
     <<"f", "o", "r">>, <<"o", "f">>, <<"w", "i", "t", "h">>, <<"b", "y">>,
     <<"f", "r", "o", "m">>, <<"a", "s">>, <<"i", "s">>, <<"w", "a", "s">>,
     <<"a", "r", "e">>, <<"w", "e", "r", "e">>, <<"b", "e">>}

HabitLearner_extract_keywords(text) ==
    SelectSeq(FindWords(Lower(text), <<>>),
              LAMBDA w : w \notin HabitLearner_stop_words /\ Len(w) > 3)

RECURSIVE TaskKeywordLoop(_, _, _, _)
\* the loop of _update_task_habit over the keywords left
TaskKeywordLoop(session, u, task_data, keywords) ==
    IF keywords = <<>> THEN session
    ELSE LET keyword == Head(keywords)
             habit == FirstHabit(session, u, "recurring_task", "keyword", keyword)
             step == IF habit # {}
                     THEN LET h == CHOOSE h \in habit : TRUE
                          IN  Assigned(session, h, [Reinforced(h) EXCEPT !.last_occurrence = now])
                     ELSE Added(session,
                                UserHabit(u, "recurring_task",
                                          [keyword |-> keyword, title |-> Get(task_data, "title", None)],
                                          1, InitialConfidence,
                                          _get_time_of_day(HourOf(now)),
                                          DayNames[Weekday(now) + 1], now))
         IN  TaskKeywordLoop(step, u, task_data, Tail(keywords))

\* the stored rows after _update_task_habit
_update_task_habit(stored, u, task_data) ==
    LET keywords == HabitLearner_extract_keywords(Get(task_data, "title", <<>>))
    IN  Commit(TaskKeywordLoop(Begin(stored), u, task_data, Take(keywords, TopKeywords)))

\* the stored rows after _update_command_habit
_update_command_habit(stored, u, command_data) ==
    LET session == Begin(stored)
        command_type == Get(command_data, "command_type", "unknown")
        habit == FirstHabit(session, u, "command_usage", "command_type", command_type)
    IN  Commit(IF habit # {}
               THEN LET h == CHOOSE h \in habit : TRUE
                    IN  Assigned(session, h, [Reinforced(h) EXCEPT !.last_occurrence = now])
               ELSE Added(session,
                          UserHabit(u, "command_usage", [command_type |-> command_type],
                                    1, InitialConfidence, _get_time_of_day(HourOf(now)),
                                    None, now)))

\* one find-or-create of _update_conversation_habit
PreferenceHabit(session, u, habit_type, key, value) ==
    LET habit == FirstHabit(session, u, habit_type, key, value)
    IN  IF habit # {}
        THEN LET h == CHOOSE h \in habit : TRUE
             IN  Assigned(session, h, Reinforced(h))
        ELSE Added(session, UserHabit(u, habit_type, [k \in {key} |-> value],
                                      1, InitialConfidence, None, None, NullTime))

\* the stored rows after _update_conversation_habit
_update_conversation_habit(stored, u, conversation_data) ==
    LET language == Get(conversation_data, "language", "en")
        channel == Get(conversation_data, "channel", "text")
        first == PreferenceHabit(Begin(stored), u, "language_preference", "language", language)
    IN  Commit(PreferenceHabit(first, u, "channel_preference", "channel", channel))

\* a row of user_profiles with the columns the learner writes
UserProfile(u) ==
    [user_id |-> u, total_tasks_created |-> 0, total_commands_executed |-> 0,
     total_voice_interactions |-> 0, last_interaction |-> NullTime]

\* the statistics of update_habit_from_action
ProfileAfter(profile, action_type, action_data) ==
    LET seen == [profile EXCEPT !.last_interaction = now]
    IN  IF action_type = "task_created"
        THEN [seen EXCEPT !.total_tasks_created = @ + 1]
        ELSE IF action_type = "command_executed"
        THEN [seen EXCEPT !.total_commands_executed = @ + 1]
        ELSE IF action_type = "conversation" /\ Get(action_data, "channel", None) = "voice"
        THEN [seen EXCEPT !.total_voice_interactions = @ + 1]
        ELSE seen

\* the stored habits after the handler update_habit_from_action dispatches to
HabitsAfter(stored, u, action_type, action_data) ==
    IF action_type = "task_created" THEN _update_task_habit(stored, u, action_data)
    ELSE IF action_type = "command_executed" THEN _update_command_habit(stored, u, action_data)
    ELSE IF action_type = "conversation" THEN _update_conversation_habit(stored, u, action_data)
    ELSE stored

update_habit_from_action(u, action_type, action_data) ==
    /\ habits' = HabitsAfter(habits, u, action_type, action_data)
    /\ profiles' = {IF profile.user_id = u
                    THEN ProfileAfter(profile, action_type, action_data)
                    ELSE profile : profile \in profiles}
    /\ ret' = [op |-> "update_habit_from_action", user_id |-> u,
               action_type |-> action_type, action_data |-> action_data]
    /\ UNCHANGED <<voiceVars, now, tasks, predictions, predNext, ctxVars, commands, queueVars, inflight>>

RECURSIVE LearnLoop(_, _, _, _)
\* the loop of learn_habits over the patterns left: the stored rows and the
\* list new_habits at its end; every pass commits
LearnLoop(stored, new_habits, u, patterns) ==
    IF patterns = <<>> THEN [stored |-> stored, new_habits |-> new_habits]
    ELSE LET pattern == Head(patterns)
             session == Begin(stored)
             keyword == Get(pattern, "keyword", <<>>)
             existing_habit == IF keyword # <<>>
                               THEN FirstHabit(session, u, pattern.type, "keyword", keyword)
                               ELSE {}
         IN  IF pattern.confidence < habit_threshold
             THEN LearnLoop(stored, new_habits, u, Tail(patterns))
             ELSE IF existing_habit # {}
             THEN LET h == CHOOSE h \in existing_habit : TRUE
                      changed == [h EXCEPT !.frequency = @ + 1,
                                           !.confidence = pattern.confidence,
                                           !.last_occurrence = now,
                                           !.pattern_data = pattern]
                  IN  LearnLoop(Commit(Assigned(session, h, changed)), new_habits, u,
                                Tail(patterns))
             ELSE LET habit == UserHabit(u, pattern.type, pattern, pattern.frequency,
                                         pattern.confidence,
                                         Get(pattern, "time_of_day", None),
                                         Get(pattern, "day_of_week", None), now)
                  IN  LearnLoop(Commit(Added(session, habit)), Append(new_habits, pattern), u,
                                Tail(patterns))

learn_habits(u) ==
    LET done == LearnLoop(habits, <<>>, u, DetectedPatterns(u).result)
    IN  /\ habits' = done.stored
        /\ ret' = [op |-> "learn_habits", user_id |-> u, result |-> done.new_habits]
        /\ UNCHANGED <<voiceVars, now, tasks, predictions, predNext, ctxVars, commands, queueVars,
                       learnVars>>

\* what the callers of update_habit_from_action pass: titles with more than
\* three keywords and with one keyword twice, payloads without the optional
\* members
TaskPayloads ==
    {[title |-> <<"C", "a", "l", "l", " ", "t", "h", "e", "m", " ", "b", "a", "c", "k", " ",
                  "s", "o", "o", "n">>],
     [title |-> <<"m", "a", "i", "l", " ", "m", "a", "i", "l">>]}

CommandPayloads == {[source |-> "voice"]}

ConversationPayloads == {[channel |-> "voice"]}

Actions ==
    {[action_type |-> "task_created", action_data |-> d] : d \in TaskPayloads}
    \cup {[action_type |-> "command_executed", action_data |-> d] : d \in CommandPayloads}
    \cup {[action_type |-> "conversation", action_data |-> d] : d \in ConversationPayloads}

\* the history learn_habits reads: three evening tasks of u1 about one
\* keyword, and the user_profiles row of u1; u2 has no profile
InitHabits ==
    /\ VoiceIdle
    /\ now = PatternTime
    /\ habits = {}
    /\ tasks = {t \in PatternTasks : t.priority = "high"} \cup OtherTasks
    /\ predictions = {}
    /\ predNext = 1
    /\ CtxIdle
    /\ profiles = {UserProfile("u1")}
    /\ inflight = {}
    /\ QueueIdle
    /\ ret = NoRet

\* the calls stop at MaxHabits rows, at frequency MaxFrequency and at
\* MaxCalls counted actions of a kind
Bounded(stored, counted) ==
    /\ Cardinality(stored) <= MaxHabits
    /\ \A h \in stored : h.frequency <= MaxFrequency
    /\ \A profile \in counted :
          /\ profile.total_tasks_created <= MaxCalls
          /\ profile.total_commands_executed <= MaxCalls
          /\ profile.total_voice_interactions <= MaxCalls

NextHabits ==
    \/ \E u \in Users : learn_habits(u) /\ Bounded(habits', profiles')
    \/ \E u \in Users : \E a \in Actions :
          /\ update_habit_from_action(u, a.action_type, a.action_data)
          /\ Bounded(habits', profiles')

SpecHabits == InitHabits /\ [][NextHabits]_vars

----------------------------------------------------------------------------
\* Context retention (src/learning/context_manager.py)

MaxRetentionTicks == 3

\* days: int = 30
DefaultRetentionDays == 30

\* ConversationContext.timestamp <= cutoff
NotAfter(timestamp, cutoff) == timestamp <= cutoff

\* ConversationContext.timestamp < cutoff
Before(timestamp, cutoff) == timestamp < cutoff

\* the table is INTEGER PRIMARY KEY without AUTOINCREMENT: the next id follows
\* the largest id left
clear_old_contexts(u, days) ==
    LET cutoff == now - days * Day
        old == {c \in contexts : c.user_id = u /\ Before(c.timestamp, cutoff)}
        deleted == Cardinality(old)
    IN  /\ contexts' = contexts \ old
        /\ ctxNext' = Max({0} \cup {c.id : c \in contexts'}) + 1
        /\ ret' = [op |-> "clear_old_contexts", user_id |-> u, days |-> days,
                   result |-> deleted]
        /\ UNCHANGED now
        /\ UNCHANGED notCtx

\* The clock moves between calls, half the default retention at a time
RetentionTick == (DefaultRetentionDays \div 2) * Day

tick_days ==
    /\ now + RetentionTick <= MaxRetentionTicks * RetentionTick
    /\ now' = now + RetentionTick
    /\ ret' = [op |-> "tick_days"]
    /\ UNCHANGED ctxVars
    /\ UNCHANGED notCtx

NextRetention ==
    \/ \E u \in Users : save_context(u, None, "en", "text", None, NoMoodData)
    \/ \E u \in Users : \E days \in {1, DefaultRetentionDays} : clear_old_contexts(u, days)
    \/ \E u \in Users : get_recent_context(u, 0, None, TRUE)
    \/ tick_days

SpecRetention == InitContext /\ [][NextRetention]_vars

----------------------------------------------------------------------------
\* Concurrent calls (src/learning/habit_learner.py, src/core/database.py)
\*
\* Every caller works on a session of its own (SessionLocal(), get_db), so
\* two update_habit_from_action calls interleave at their statements: the
\* query that loads the habit, the commit that writes it, the query that
\* loads the profile and the commit that writes it.  A commit writes the
\* values the session computed from what it loaded.

MaxRaceCalls == 3

Sessions == {"s1", "s2"}

\* the call of a session, if it is in flight
CallOf(session) == {c \in inflight : c.session = session}

\* a call moves on to the statement pc with what it has loaded
Moved(c, changed) == inflight' = (inflight \ {c}) \cup {changed}

\* UPDATE user_habits SET frequency = frequency + 1, ... WHERE id = :id
IncrementInPlace(stored, loaded, changed) ==
    {IF r.id = loaded.id
     THEN [r EXCEPT !.frequency = @ + 1,
                    !.confidence = Capped(@ + ConfidenceStep, Scale),
                    !.last_occurrence = changed.last_occurrence]
     ELSE r : r \in stored}

\* UPDATE user_habits SET frequency = :frequency, confidence = :confidence,
\* last_occurrence = :last_occurrence WHERE id = :id
WriteAssigned(stored, loaded, changed) ==
    {IF r.id = loaded.id
     THEN [r EXCEPT !.frequency = changed.frequency,
                    !.confidence = changed.confidence,
                    !.last_occurrence = changed.last_occurrence]
     ELSE r : r \in stored}

\* lines 161-166: the query of _update_command_habit
query_command_habit(session, u, command_data) ==
    LET command_type == Get(command_data, "command_type", "unknown")
        habit == FirstHabit(Begin(habits), u, "command_usage", "command_type", command_type)
    IN  /\ CallOf(session) = {}
        /\ \A h \in habits : h.frequency < MaxFrequency
        /\ \A profile \in profiles : profile.total_commands_executed < MaxRaceCalls
        /\ inflight' = inflight \cup
               {[session |-> session, user_id |-> u, command_data |-> command_data,
                 pc |-> "habit_loaded", habit |-> habit, profile |-> {}]}
        /\ UNCHANGED <<voiceVars, predVars, ctxVars, commands, queueVars, profiles, ret>>

\* lines 168-184: the assignments or the add, and the commit
commit_command_habit(session) ==
    \E c \in CallOf(session) :
        /\ c.pc = "habit_loaded"
        /\ habits' =
              IF c.habit # {}
              THEN LET h == CHOOSE h \in c.habit : TRUE
                   IN  WriteAssigned(habits, h, [Reinforced(h) EXCEPT !.last_occurrence = now])
              ELSE Commit(Added(Begin(habits),
                                UserHabit(c.user_id, "command_usage",
                                          [command_type |->
                                              Get(c.command_data, "command_type", "unknown")],
                                          1, InitialConfidence, _get_time_of_day(HourOf(now)),
                                          None, now)))
        /\ Moved(c, [c EXCEPT !.pc = "habit_committed"])
        /\ UNCHANGED <<voiceVars, now, tasks, predictions, predNext, ctxVars, commands, queueVars,
                       profiles, ret>>

\* line 101: the query of the profile; without a profile the call returns
query_profile(session) ==
    \E c \in CallOf(session) :
        LET profile == {p \in profiles : p.user_id = c.user_id}
        IN  /\ c.pc = "habit_committed"
            /\ IF profile # {}
               THEN /\ Moved(c, [c EXCEPT !.pc = "profile_loaded", !.profile = profile])
                    /\ UNCHANGED ret
               ELSE /\ inflight' = inflight \ {c}
                    /\ ret' = [op |-> "update_habit_from_action", user_id |-> c.user_id,
                               action_type |-> "command_executed",
                               action_data |-> c.command_data]
            /\ UNCHANGED <<voiceVars, predVars, ctxVars, commands, queueVars, profiles>>

\* lines 103-112: the statistics and the commit
commit_profile(session) ==
    \E c \in CallOf(session) :
        /\ c.pc = "profile_loaded"
        /\ LET loaded == CHOOSE p \in c.profile : TRUE
               changed == ProfileAfter(loaded, "command_executed", c.command_data)
           IN  profiles' = {IF p.user_id = c.user_id
                            THEN [p EXCEPT !.last_interaction = changed.last_interaction,
                                           !.total_commands_executed =
                                               changed.total_commands_executed]
                            ELSE p : p \in profiles}
        /\ inflight' = inflight \ {c}
        /\ ret' = [op |-> "update_habit_from_action", user_id |-> c.user_id,
                   action_type |-> "command_executed", action_data |-> c.command_data]
        /\ UNCHANGED <<voiceVars, predVars, ctxVars, commands, queueVars>>

\* two sessions serve the command actions of two users; u1 has a profile
InitRace ==
    /\ VoiceIdle
    /\ PredIdle
    /\ CtxIdle
    /\ profiles = {UserProfile("u1")}
    /\ inflight = {}
    /\ QueueIdle
    /\ ret = NoRet

NextRace ==
    \/ \E session \in Sessions, u \in Users, command_data \in CommandPayloads :
          query_command_habit(session, u, command_data)
    \/ \E session \in Sessions : commit_command_habit(session)
    \/ \E session \in Sessions : query_profile(session)
    \/ \E session \in Sessions : commit_profile(session)

SpecRace == InitRace /\ [][NextRace]_vars

----------------------------------------------------------------------------
\* Context-aware intent (src/learning/context_manager.py)

\* limit=5 of the get_recent_context call in get_contextual_response
ResponseContextLimit == 5

follow_up_patterns ==
    {<<"y", "e", "s">>, <<"n", "o">>, <<"o", "k", "a", "y">>, <<"s", "u", "r", "e">>,
     <<"d", "o", "n", "e">>, <<"c", "o", "m", "p", "l", "e", "t", "e">>,
     <<"f", "i", "n", "i", "s", "h", "e", "d">>}

pronouns ==
    {<<"i", "t">>, <<"t", "h", "i", "s">>, <<"t", "h", "a", "t">>,
     <<"t", "h", "e", "s", "e">>, <<"t", "h", "o", "s", "e">>, <<"t", "h", "e", "m">>,
     <<"t", "h", "e", "y">>}

\* any(f' {pronoun} ' in f' {text_lower} ' for pronoun in pronouns)
_contains_pronouns(text) ==
    LET text_lower == Lower(text)
    IN  \E pronoun \in pronouns :
           Contains(<<" ">> \o text_lower \o <<" ">>, <<" ">> \o pronoun \o <<" ">>)

\* recent_contexts[0]
OldestContext(recent_contexts) == recent_contexts[1]

\* recent_contexts[-1]
LastContext(recent_contexts) == recent_contexts[Len(recent_contexts)]

_determine_intent_with_context(current_message, recent_contexts) ==
    LET message_lower == Lower(current_message)
        last_intent == LastContext(recent_contexts).intent
    IN  IF /\ \E pattern \in follow_up_patterns : Contains(message_lower, pattern)
           /\ recent_contexts # <<>>
        THEN IF Truthy(last_intent) THEN "follow_up_" \o last_intent ELSE "confirmation"
        ELSE IF _contains_pronouns(current_message) THEN "contextual_reference"
        ELSE "unknown"

\* ret holds the intent of the returned triple and the contexts it was decided on
get_contextual_response(u, current_message, session_id) ==
    \E recent_contexts \in RecentContexts(u, ResponseContextLimit, session_id, FALSE) :
        /\ ret' = [op |-> "get_contextual_response", user_id |-> u,
                   current_message |-> current_message, session_id |-> session_id,
                   recent_contexts |-> recent_contexts,
                   intent |-> _determine_intent_with_context(current_message,
                                                             recent_contexts)]
        /\ UNCHANGED <<now, ctxVars>>
        /\ UNCHANGED notCtx

\* a confirmation, a message that only holds "no" inside a word, a confirmation with
\* a pronoun, a pronoun alone, and a message with neither
Messages ==
    {<<"Y", "e", "s">>, <<"I", " ", "k", "n", "o", "w">>,
     <<"o", "k", "a", "y", " ", "d", "o", " ", "i", "t">>,
     <<"d", "o", " ", "T", "h", "a", "t">>, <<"h", "i", "t">>}

\* intent: Optional[str] = None of save_context; the second user never names one
IntentsOf(u) == IF u = "u1" THEN {None, "create_task"} ELSE {None}

NextIntent ==
    \/ \E u \in Users : \E intent \in IntentsOf(u) :
          save_context(u, intent, "en", "text", None, NoMoodData)
    \/ \E u \in Users, current_message \in Messages :
          get_contextual_response(u, current_message, None)
    \/ tick_minutes

SpecIntent == InitContext /\ [][NextIntent]_vars

----------------------------------------------------------------------------
\* Voice recognition (src/learning/voice_recognizer.py)

MaxCandidates == 7
\* the profiles 1..MaxOwnFeatures are trained with features of the caller's own
MaxOwnFeatures == 3

\* self.recognition_threshold = 0.75
recognition_threshold == (75 * Scale) \div 100

\* voice_features: Optional[Dict] = None, left out by the caller
NoFeatures == [omitted |-> TRUE]

\* the user_id and profile_id positions of a result without a match: None
NoProfile == 0

_extract_features_from_samples(audio_samples) ==
    [embeddings |-> EmptyDict,
     pitch_range |-> [min |-> 100, max |-> 200, avg |-> 150],
     energy_range |-> [min |-> (2 * Scale) \div 10, max |-> (8 * Scale) \div 10,
                       avg |-> (5 * Scale) \div 10],
     speaking_rate |-> 140]

_extract_features_from_audio(audio_file) ==
    [pitch |-> 150, energy |-> (5 * Scale) \div 10, speaking_rate |-> 140, mfcc |-> <<>>]

train_voice_profile(pid, audio_samples, voice_features) ==
    LET found == ProfileById(vpDb, pid) IN
    /\ UNCHANGED notVoice
    /\ IF found = {}
       THEN /\ ret' = [op |-> "train_voice_profile", profile_id |-> pid, result |-> FALSE]
            /\ UNCHANGED voiceVars
       ELSE LET profile == CHOOSE p \in found : TRUE
                features == IF voice_features = NoFeatures
                            THEN _extract_features_from_samples(audio_samples)
                            ELSE voice_features
                trained == [profile EXCEPT
                               !.voice_embeddings = Get(features, "embeddings", EmptyDict),
                               !.pitch_range = Get(features, "pitch_range", EmptyDict),
                               !.energy_range = Get(features, "energy_range", EmptyDict),
                               !.speaking_rate = Get(features, "speaking_rate", NullRate),
                               !.training_samples = Len(audio_samples)]
            IN  /\ vpDb' = Flush((vpDb \ found) \cup {trained}, vpPending)
                /\ vpPending' = EmptyPending
                /\ vpNext' = vpNext
                /\ ret' = [op |-> "train_voice_profile", profile_id |-> pid, result |-> TRUE]

Abs(x) == IF x < 0 THEN 0 - x ELSE x

\* max(0, x)
Max0(x) == IF x < 0 THEN 0 ELSE x

\* a / b of a non-negative a and a b of either sign
Quotient(a, b) == IF b < 0 THEN 0 - (a \div (0 - b)) ELSE a \div b

\* similarity * 0.3, similarity * 0.2
Weighted(similarity, tenths) == (similarity * tenths) \div 10

_calculate_similarity(test_features, profile) ==
    LET pitch_score ==
            IF test_features.pitch # 0 /\ DOMAIN profile.pitch_range # {}
            THEN LET test_pitch == test_features.pitch
                     avg_pitch == Get(profile.pitch_range, "avg", 150)
                     pitch_range == Get(profile.pitch_range, "max", 200)
                                       - Get(profile.pitch_range, "min", 100)
                     pitch_diff == Abs(test_pitch - avg_pitch)
                     pitch_similarity ==
                         IF pitch_range > 0
                         THEN Max0(Scale - Quotient(pitch_diff * Scale, pitch_range))
                         ELSE Scale \div 2
                 IN  <<Weighted(pitch_similarity, 3)>>
            ELSE <<>>
        energy_score ==
            IF test_features.energy # 0 /\ DOMAIN profile.energy_range # {}
            THEN LET test_energy == test_features.energy
                     avg_energy == Get(profile.energy_range, "avg", (5 * Scale) \div 10)
                     energy_diff == Abs(test_energy - avg_energy)
                     energy_similarity == Max0(Scale - energy_diff)
                 IN  <<Weighted(energy_similarity, 2)>>
            ELSE <<>>
        rate_score ==
            IF test_features.speaking_rate # 0 /\ profile.speaking_rate # NullRate
            THEN LET test_rate == test_features.speaking_rate
                     profile_rate == profile.speaking_rate
                     rate_diff == Quotient(Abs(test_rate - profile_rate) * Scale,
                                           profile_rate)
                     rate_similarity == Max0(Scale - rate_diff)
                 IN  <<Weighted(rate_similarity, 2)>>
            ELSE <<>>
        mfcc_score ==
            IF test_features.mfcc # <<>> /\ DOMAIN profile.voice_embeddings # {}
            THEN <<Weighted((6 * Scale) \div 10, 3)>>
            ELSE <<>>
        similarity_scores == pitch_score \o energy_score \o rate_score \o mfcc_score
    IN  IF similarity_scores # <<>> THEN Sum(similarity_scores) ELSE Scale \div 2

RECURSIVE ByProfileId(_)
\* query.all(): the rows in the order of their creation
ByProfileId(rows) ==
    IF rows = {} THEN <<>>
    ELSE LET first == CHOOSE r \in rows : \A x \in rows : r.profile_id <= x.profile_id
         IN  <<first>> \o ByProfileId(rows \ {first})

RECURSIVE SortBySimilarityDesc(_)
\* matches.sort(key=lambda x: x['similarity'], reverse=True): a stable sort
SortBySimilarityDesc(matches) ==
    IF matches = <<>> THEN <<>>
    ELSE LET n == Len(matches)
             best == CHOOSE i \in 1..n :
                        \A j \in 1..n :
                           \/ matches[j].similarity < matches[i].similarity
                           \/ matches[j].similarity = matches[i].similarity /\ j >= i
         IN  <<matches[best]>> \o
                SortBySimilarityDesc(SubSeq(matches, 1, best - 1) \o
                                     SubSeq(matches, best + 1, n))

\* matches[:5]: the accepted match heads the alternatives
FirstFive(matches) == SubSeq(matches, 1, Min(5, Len(matches)))

\* matches[1:6]
AfterBest(matches) == SubSeq(matches, 2, Min(6, Len(matches)))

\* expected_users: <<>> stands for None and for the empty list, both falsy
recognize_user_from_voice(audio_file, expected_users) ==
    LET test_features == _extract_features_from_audio(audio_file)
        profiles_found ==
            ByProfileId({p \in vpDb : /\ p.is_active
                                      /\ expected_users # <<>> =>
                                            p.user_id \in Range(expected_users)})
        unsorted == [i \in 1..Len(profiles_found) |->
                        [user_id |-> profiles_found[i].user_id,
                         profile_id |-> profiles_found[i].profile_id,
                         similarity |-> _calculate_similarity(test_features,
                                                              profiles_found[i])]]
        matches == SortBySimilarityDesc(unsorted)
        call == [op |-> "recognize_user_from_voice", expected_users |-> expected_users]
    IN  /\ ret' = IF profiles_found = <<>>
                  THEN call @@ [user_id |-> None, profile_id |-> NoProfile,
                                confidence |-> 0, alternatives |-> <<>>]
                  ELSE IF matches[1].similarity >= recognition_threshold
                  THEN call @@ [user_id |-> matches[1].user_id,
                                profile_id |-> matches[1].profile_id,
                                confidence |-> matches[1].similarity,
                                alternatives |-> AfterBest(matches)]
                  ELSE call @@ [user_id |-> None, profile_id |-> NoProfile,
                                confidence |-> 0, alternatives |-> FirstFive(matches)]
        /\ UNCHANGED voiceVars
        /\ UNCHANGED notVoice

\* a dict of features a caller passes to train_voice_profile
OwnFeatures ==
    [pitch_range |-> [min |-> 100, max |-> 200, avg |-> 175],
     energy_range |-> [avg |-> (5 * Scale) \div 10],
     speaking_rate |-> 0 - 140]

\* the profiles that n create_voice_profile calls, alternating between the two
\* users, leave
Created(n) ==
    {VoiceProfile(pid, IF pid % 2 = 1 THEN "u1" ELSE "u2", pid <= 2) : pid \in 1..n}

InitRecognize ==
    /\ LearnIdle
    /\ QueueIdle
    /\ \E n \in 0..MaxCandidates : vpDb = Created(n) /\ vpNext = n + 1
    /\ vpPending = EmptyPending
    /\ PredIdle
    /\ CtxIdle
    /\ ret = NoRet

NextRecognize ==
    \/ \E pid \in 0..MaxCandidates :
          train_voice_profile(pid, <<"sample.wav">>, NoFeatures)
    \/ \E pid \in 1..MaxOwnFeatures :
          train_voice_profile(pid, <<"sample.wav">>, OwnFeatures)
    \/ \E expected_users \in {<<>>, <<"u1">>, <<"u2">>, <<"u3">>} :
          recognize_user_from_voice("voice.wav", expected_users)

SpecRecognize == InitRecognize /\ [][NextRecognize]_vars

----------------------------------------------------------------------------
\* Prediction accuracy (src/learning/task_predictor.py)

get_prediction_accuracy(u) ==
    LET total == Cardinality({p \in predictions : p.user_id = u /\ p.shown_to_user = TRUE})
        accepted == Cardinality({p \in predictions :
                                    p.user_id = u /\ p.accepted_by_user = "true"})
        dismissed == Cardinality({p \in predictions :
                                     p.user_id = u /\ p.dismissed_by_user = TRUE})
        accuracy == IF total > 0 THEN Ratio(accepted, total) ELSE 0
    IN  /\ ret' = [op |-> "get_prediction_accuracy", user_id |-> u,
                   total_predictions |-> total, accepted |-> accepted,
                   dismissed |-> dismissed, accuracy |-> accuracy,
                   acceptance_rate |-> accuracy]
        /\ UNCHANGED predVars
        /\ UNCHANGED notPred

\* the predictor with both reads of the stored predictions
NextFeedback ==
    \/ NextLifecycle
    \/ \E u \in Users : get_prediction_accuracy(u)

SpecFeedback == InitPredictor /\ [][NextFeedback]_vars

----------------------------------------------------------------------------
\* Concurrent create_voice_profile calls (src/learning/voice_recognizer.py,
\* src/core/database.py): every call has a session of its own

\* lines 29-33: the query of the user's profiles and the decision it gives
query_existing_profiles(session, u) ==
    /\ CallOf(session) = {}
    /\ vpNext + Cardinality(inflight) <= MaxProfiles
    /\ LET existing_profiles == ProfilesOf(vpDb, u)
           is_primary == (existing_profiles = {})
       IN  inflight' = inflight \cup
               {[session |-> session, user_id |-> u, pc |-> "queried",
                 is_primary |-> is_primary]}
    /\ UNCHANGED <<voiceVars, predVars, ctxVars, commands, queueVars, profiles, ret>>

\* lines 35-47: the INSERT of the new row and the commit
commit_voice_profile(session) ==
    \E c \in CallOf(session) :
        /\ c.pc = "queried"
        /\ vpDb' = vpDb \cup {VoiceProfile(vpNext, c.user_id, c.is_primary)}
        /\ vpNext' = vpNext + 1
        /\ inflight' = inflight \ {c}
        /\ ret' = [op |-> "create_voice_profile", user_id |-> c.user_id,
                   profile_id |-> vpNext, result |-> TRUE]
        /\ UNCHANGED <<vpPending, predVars, ctxVars, commands, queueVars, profiles>>

NextCreateRace ==
    \/ \E session \in Sessions, u \in Users : query_existing_profiles(session, u)
    \/ \E session \in Sessions : commit_voice_profile(session)

SpecCreateRace == InitVoice /\ [][NextCreateRace]_vars

----------------------------------------------------------------------------
\* Message Queue (src/whatsapp_handler/message_queue.py): the calls of the API
\* and the worker threads that start_worker starts, one step per statement
\* that reads or writes the queue or calls the WhatsApp handler

MaxMessages == 1
MaxQueueTicks == 3
MaxThreads == 2

\* new_send_at = datetime.now() + timedelta(minutes=5)
RetryDelay == 5

\* if msg['attempts'] < 3
RetryLimit == 3

notQueue == <<voiceVars, habits, tasks, predictions, predNext, ctxVars, commands, learnVars>>

\* the message id is the position in the queue and stands for uuid4
QueueItem(message_id, send_at) ==
    [id |-> message_id, send_at |-> send_at, type |-> "text", status |-> "pending",
     attempts |-> 0]

add_message(send_at) ==
    LET message_id == Len(queue) + 1
    IN  /\ queue' = Append(queue, QueueItem(message_id, send_at))
        /\ outbox' = Append(outbox, 0)
        /\ ret' = [op |-> "add_message", result |-> message_id]
        /\ UNCHANGED <<now, running, threads>>
        /\ UNCHANGED notQueue

\* the ids of the messages get_pending_messages returns
PendingMessages ==
    LET pending == SelectSeq(queue, LAMBDA msg : msg.status = "pending" /\ msg.send_at <= now)
    IN  [i \in 1..Len(pending) |-> pending[i].id]

get_pending_messages ==
    /\ ret' = [op |-> "get_pending_messages", result |-> PendingMessages]
    /\ UNCHANGED <<now, queueVars>>
    /\ UNCHANGED notQueue

mark_sent(message_id) ==
    [i \in 1..Len(queue) |->
        IF queue[i].id = message_id THEN [queue[i] EXCEPT !.status = "sent"] ELSE queue[i]]

mark_failed(message_id) ==
    [i \in 1..Len(queue) |->
        IF queue[i].id = message_id
        THEN LET attempts == queue[i].attempts + 1
             IN  IF attempts < RetryLimit
                 THEN [queue[i] EXCEPT !.attempts = attempts, !.status = "pending",
                                       !.send_at = now + RetryDelay]
                 ELSE [queue[i] EXCEPT !.attempts = attempts, !.status = "failed"]
        ELSE queue[i]]

cancel_message(message_id) ==
    LET found == {i \in 1..Len(queue) :
                     queue[i].id = message_id /\ queue[i].status = "pending"}
    IN  /\ queue' = [i \in 1..Len(queue) |->
                        IF i \in found THEN [queue[i] EXCEPT !.status = "cancelled"]
                        ELSE queue[i]]
        /\ ret' = [op |-> "cancel_message", message_id |-> message_id,
                   result |-> (found # {})]
        /\ UNCHANGED <<now, running, threads, outbox>>
        /\ UNCHANGED notQueue

ThreadIds == 1..MaxThreads

\* a thread at the head of `while self.running`
Worker(tid) == [tid |-> tid, pc |-> "loop", pending |-> <<>>, success |-> FALSE]

start_worker ==
    /\ IF running
       THEN UNCHANGED <<running, threads>>
       ELSE /\ running' = TRUE
            /\ \E tid \in ThreadIds :
                  /\ \A t \in threads : t.tid # tid
                  /\ \A other \in ThreadIds :
                        (\A t \in threads : t.tid # other) => tid <= other
                  /\ threads' = threads \cup {Worker(tid)}
    /\ ret' = [op |-> "start_worker"]
    /\ UNCHANGED <<now, queue, outbox>>
    /\ UNCHANGED notQueue

\* join(timeout=5) returns whether the thread has ended or not
stop_worker ==
    /\ running' = FALSE
    /\ ret' = [op |-> "stop_worker"]
    /\ UNCHANGED <<now, queue, threads, outbox>>
    /\ UNCHANGED notQueue

\* `while self.running:` and `pending = self.get_pending_messages()`; with
\* nothing pending the thread sleeps and comes back here
worker_loop(tid) ==
    \E t \in threads :
        /\ t.tid = tid
        /\ t.pc = "loop"
        /\ threads' = IF ~running THEN threads \ {t}
                      ELSE IF PendingMessages = <<>> THEN threads
                      ELSE (threads \ {t}) \cup
                              {[t EXCEPT !.pc = "send", !.pending = PendingMessages]}
        /\ UNCHANGED <<now, queue, running, outbox, ret>>
        /\ UNCHANGED notQueue

\* whatsapp_handler.send_message(...) for the next message of the batch; an
\* exception counts as a failed send
worker_send(tid, success) ==
    \E t \in threads :
        /\ t.tid = tid
        /\ t.pc = "send"
        /\ outbox' = [outbox EXCEPT ![Head(t.pending)] = @ + 1]
        /\ threads' = (threads \ {t}) \cup {[t EXCEPT !.pc = "mark", !.success = success]}
        /\ UNCHANGED <<now, queue, running, ret>>
        /\ UNCHANGED notQueue

\* self.mark_sent(msg['id']) or self.mark_failed(msg['id'], ...), then the next
\* message of the batch or time.sleep(check_interval)
worker_mark(tid) ==
    \E t \in threads :
        /\ t.tid = tid
        /\ t.pc = "mark"
        /\ queue' = IF t.success THEN mark_sent(Head(t.pending))
                    ELSE mark_failed(Head(t.pending))
        /\ threads' = (threads \ {t}) \cup
                         {[t EXCEPT !.pending = Tail(t.pending),
                                    !.pc = IF Tail(t.pending) = <<>> THEN "loop" ELSE "send"]}
        /\ UNCHANGED <<now, running, outbox, ret>>
        /\ UNCHANGED notQueue

\* The clock moves between steps, five minutes at a time
tick_queue ==
    /\ now' = now + RetryDelay
    /\ ret' = [op |-> "tick_queue"]
    /\ UNCHANGED queueVars
    /\ UNCHANGED notQueue

InitQueue ==
    /\ LearnIdle
    /\ QueueIdle
    /\ VoiceIdle
    /\ PredIdle
    /\ CtxIdle
    /\ ret = NoRet

NextQueue ==
    \/ Len(queue) < MaxMessages /\ add_message(now)
    \/ get_pending_messages
    \/ \E message_id \in 0..MaxMessages : cancel_message(message_id)
    \/ (running \/ Cardinality(threads) < MaxThreads) /\ start_worker
    \/ stop_worker
    \/ \E tid \in ThreadIds : worker_loop(tid)
    \/ \E tid \in ThreadIds, success \in BOOLEAN : worker_send(tid, success)
    \/ \E tid \in ThreadIds : worker_mark(tid)
    \/ now < MaxQueueTicks * RetryDelay /\ tick_queue

SpecQueue == InitQueue /\ [][NextQueue]_vars

----------------------------------------------------------------------------
\* C1: every user with at least one stored voice profile has exactly one
\* is_primary profile, and a user without profiles has none.
PrimaryCount(u) == Cardinality({p \in ProfilesOf(vpDb, u) : p.is_primary})

C1_ExactlyOnePrimary ==
    \A u \in Users :
        PrimaryCount(u) = (IF ProfilesOf(vpDb, u) = {} THEN 0 ELSE 1)

\* C2: create_voice_profile makes the user's first profile primary, every
\* later one non-primary, and leaves the stored is_primary flag of every
\* existing profile as it was.
C2_CreatePrimaryIffFirst ==
    [][\A u \in Users :
          create_voice_profile(u) =>
            /\ \E n \in vpDb' :
                  /\ n.profile_id = vpNext
                  /\ n.user_id = u
                  /\ n.is_primary = (ProfilesOf(vpDb, u) = {})
            /\ \A p \in vpDb : p \in vpDb']_vars

\* C3: delete_voice_profile removes the profile; deleting the stored primary
\* while other profiles exist leaves exactly one primary among them, deleting
\* the only profile leaves none, deleting a non-primary profile leaves the
\* user's primary as it was.
PrimaryIds(db, u) == {p.profile_id : p \in {q \in ProfilesOf(db, u) : q.is_primary}}

C3_DeleteKeepsOnePrimary ==
    [][\A pid \in ProfileIds, u \in Users :
          (delete_voice_profile(pid, u) /\ OwnedProfile(vpDb, pid, u) # {}) =>
            LET profile == CHOOSE p \in OwnedProfile(vpDb, pid, u) : TRUE
                rest == ProfilesOf(vpDb', u)
            IN  /\ ProfileById(vpDb', pid) = {}
                /\ {p.profile_id : p \in rest} =
                       {p.profile_id : p \in ProfilesOf(vpDb, u)} \ {pid}
                /\ (profile.is_primary /\ rest # {}) =>
                       Cardinality(PrimaryIds(vpDb', u)) = 1
                /\ rest = {} => PrimaryIds(vpDb', u) = {}
                /\ ~profile.is_primary =>
                       PrimaryIds(vpDb', u) = PrimaryIds(vpDb, u)]_vars

\* C8: update_recognition_accuracy(profile_id, was_correct=true) on an
\* existing profile never lowers recognition_accuracy and never lifts it
\* above 1.0, from every starting value including the stored default 0.0.
C8_CorrectFeedbackMonotone ==
    [][\A pid \in AnyProfileId :
          (update_recognition_accuracy(pid, TRUE) /\ ProfileById(vpDb, pid) # {}) =>
            \A p \in ProfileById(vpDb, pid) :
               \E q \in ProfileById(vpDb', pid) :
                  /\ q.recognition_accuracy >= p.recognition_accuracy
                  /\ q.recognition_accuracy <= Scale]_vars

\* the default 0.0 was rated correct once and then again
C8_Witness ==
    /\ ret.op = "update_recognition_accuracy"
    /\ ret.result /\ ret.was_correct
    /\ ret.before = NewAccuracy(FallbackAccuracy, TRUE)
    /\ \E p \in ProfileById(vpDb, ret.profile_id) :
          p.recognition_accuracy = NewAccuracy(NewAccuracy(FallbackAccuracy, TRUE), TRUE)

\* C4: of two stored predictions with the same user and text that were
\* created less than 24 hours apart, the earlier one has been dismissed; so
\* no two undismissed rows for one text lie within 24 hours of each other.
C4_DedupWindow ==
    \A p, q \in predictions :
        (/\ p.id < q.id
         /\ p.user_id = q.user_id
         /\ p.predicted_task = q.predicted_task
         /\ q.created_at - p.created_at < DedupWindow)
        => p.dismissed_by_user

\* a dismissed row and its undismissed replacement inside the window
C4_Witness ==
    \E p, q \in predictions :
        /\ p.id < q.id
        /\ p.user_id = q.user_id
        /\ p.predicted_task = q.predicted_task
        /\ q.created_at - p.created_at < DedupWindow
        /\ p.dismissed_by_user
        /\ ~q.dismissed_by_user

\* C5 (as claimed): at most one of shown_to_user, accepted_by_user and
\* dismissed_by_user is true for any stored prediction.
FlagsSet(p) ==
    (IF p.shown_to_user THEN 1 ELSE 0)
    + (IF p.accepted_by_user = "true" THEN 1 ELSE 0)
    + (IF p.dismissed_by_user THEN 1 ELSE 0)

C5_FlagsMutuallyExclusive == \A p \in predictions : FlagsSet(p) <= 1

\* C5 (amended): shown_to_user is true exactly when accepted_by_user or
\* dismissed_by_user is true, so a prediction has no flag set or at least two.
C5_ShownIffFeedback ==
    \A p \in predictions :
        p.shown_to_user <=> (p.accepted_by_user = "true" \/ p.dismissed_by_user)

\* one prediction accepted and later dismissed: all three flags are true
C5_Witness == \E p \in predictions : FlagsSet(p) = 3

\* C6: accept_prediction and dismiss_prediction return False and change no
\* stored prediction when the id does not exist or belongs to another user,
\* and return True when the prediction belongs to the user.
C6_ForeignFeedbackIsNoOp ==
    [][\A u \in Users, id \in 1..MaxPredictions :
          (accept_prediction(u, id) \/ dismiss_prediction(u, id)) =>
            IF \E p \in predictions : p.id = id /\ p.user_id = u
            THEN ret'.result = TRUE
            ELSE ret'.result = FALSE /\ predictions' = predictions]_vars

\* a user's accept of another user's untouched prediction came back False
C6_Witness ==
    /\ ret.op = "accept_prediction"
    /\ ret.result = FALSE
    /\ \E p \in predictions : p.id = ret.prediction_id /\ FlagsSet(p) = 0
    /\ \E p, q \in predictions : p.user_id # q.user_id

\* C7: predict_tasks(user_id, limit) with limit >= 0 returns at most limit
\* entries, no two of them with the same lower-cased, trimmed title.
C7_LimitAndDistinctTitles ==
    ret.op = "predict_tasks" =>
        /\ Len(ret.result) <= ret.limit
        /\ \A i, j \in 1..Len(ret.result) :
              i # j => Strip(Lower(ret.result[i].task)) # Strip(Lower(ret.result[j].task))

\* a full answer of two titles out of candidates that held a duplicate
\* differing from a returned title by case or blanks only
C7_Witness ==
    /\ ret.op = "predict_tasks"
    /\ ret.limit = 2
    /\ Len(ret.result) = 2
    /\ ret.candidates > 2
    /\ \E i \in 1..2 : \E t \in tasks :
          /\ t.user_id = ret.user_id
          /\ t.title # ret.result[i].task
          /\ Strip(Lower(t.title)) = Strip(Lower(ret.result[i].task))

\* C9: get_recent_context with a positive limit returns at most limit
\* entries, all of the given user, in ascending timestamp order, and they are
\* the most recent entries passing the filters (the session when one is
\* given, the last 30 minutes unless include_expired).
C9_Passing ==
    {c \in contexts : /\ c.user_id = ret.user_id
                      /\ ret.session_id # None => c.session_id = ret.session_id
                      /\ ~ret.include_expired => now - c.timestamp <= 30}

C9_Returned == {c \in contexts : \E i \in 1..Len(ret.result) : ret.result[i].id = c.id}

C9_RecentContextWindow ==
    (ret.op = "get_recent_context" /\ ret.limit > 0) =>
        /\ Len(ret.result) <= ret.limit
        /\ \A i, j \in 1..Len(ret.result) :
              i < j => /\ ret.result[i].id # ret.result[j].id
                       /\ ret.result[i].timestamp <= ret.result[j].timestamp
        /\ C9_Returned \subseteq C9_Passing
        /\ Cardinality(C9_Returned) = Len(ret.result)
        /\ Len(ret.result) < ret.limit => C9_Returned = C9_Passing
        /\ \A c \in C9_Returned, x \in C9_Passing \ C9_Returned : x.timestamp <= c.timestamp

\* a call that had to cut: more entries pass the filters than the limit
\* allows, an older entry has expired, and the two returned entries have
\* different timestamps
C9_Witness ==
    /\ ret.op = "get_recent_context"
    /\ ret.limit = 2
    /\ ~ret.include_expired
    /\ Len(ret.result) = 2
    /\ ret.result[1].timestamp < ret.result[2].timestamp
    /\ Cardinality(C9_Passing) > 2
    /\ \E c \in contexts : c.user_id = ret.user_id /\ now - c.timestamp > 30

\* C10: detect_new_patterns returns no pattern whose confidence is below
\* the threshold 0.6, and returns the patterns in non-increasing confidence
\* order.
C10_FilteredAndSorted ==
    ret.op = "detect_new_patterns" =>
        /\ \A i \in 1..Len(ret.result) : ret.result[i].confidence >= confidence_threshold
        /\ \A i, j \in 1..Len(ret.result) :
              i < j => ret.result[i].confidence >= ret.result[j].confidence

\* a detection that dropped a pattern and returned patterns of task,
\* command and conversation history with different confidences
C10_Witness ==
    /\ ret.op = "detect_new_patterns"
    /\ ret.candidates > Len(ret.result)
    /\ Len(ret.result) >= 3
    /\ ret.result[1].confidence > ret.result[Len(ret.result)].confidence
    /\ \E i \in 1..Len(ret.result) : ret.result[i].type = "recurring_task"
    /\ \E i \in 1..Len(ret.result) : ret.result[i].type = "command_usage"
    /\ \E i \in 1..Len(ret.result) : ret.result[i].type = "language_preference"

\* C11: every pattern that analyze_task_patterns, analyze_command_patterns
\* and analyze_conversation_patterns emit has a confidence in [0,1].
C11_Emitted == ret.task \o ret.command \o ret.conversation

C11_ConfidenceInUnitInterval ==
    ret.op = "analyze_patterns" =>
        \A i \in 1..Len(C11_Emitted) :
            0 <= C11_Emitted[i].confidence /\ C11_Emitted[i].confidence <= Scale

\* a day_based pattern over fewer than 7 times its frequency in tasks, so its
\* raw ratio exceeds 1, next to command and conversation patterns
C11_Witness ==
    /\ ret.op = "analyze_patterns"
    /\ \E i \in 1..Len(ret.task) :
          /\ ret.task[i].type = "day_based"
          /\ ret.task[i].confidence = Scale
          /\ LET total == Cardinality({t \in tasks : /\ t.user_id = ret.user_id
                                                      /\ t.created_at >= now - 30 * Day})
             IN  ret.task[i].frequency < total /\ 7 * ret.task[i].frequency > total
    /\ ret.command # <<>>
    /\ Len(ret.conversation) >= 2

\* C12: when the user's only tasks in the window are "buy groceries", "buy
\* milk" and "buy bread", created in the morning of three different days,
\* the task analysis emits a time_based pattern for the morning with
\* frequency 3 and a recurring_task pattern, each with confidence >= 0.6.
C12_Scenario ==
    /\ ret.op = "analyze_patterns"
    /\ ret.user_id = "u1"
    /\ {t.id : t \in {x \in tasks : x.user_id = "u1" /\ x.created_at >= now - 30 * Day}}
           = {11, 12, 13}

C12_MorningAndRecurring ==
    C12_Scenario =>
        /\ \E i \in 1..Len(ret.task) :
              /\ ret.task[i].type = "time_based"
              /\ ret.task[i].time_of_day = "morning"
              /\ ret.task[i].frequency = 3
              /\ 10 * ret.task[i].confidence >= 6 * Scale
        /\ \E i \in 1..Len(ret.task) :
              /\ ret.task[i].type = "recurring_task"
              /\ 10 * ret.task[i].confidence >= 6 * Scale

\* C13: analyze_mood_trend gives trend unknown, dominant mood neutral and
\* stability 0.0 for the empty history, insufficient_data for one or two
\* samples, and from three samples on improving iff the last three moods are
\* all happy or excited, declining iff they are all sad, anxious or angry,
\* stable otherwise.
C13_LastMoods == {ret.mood_history[i].mood : i \in Len(ret.mood_history) - 2..Len(ret.mood_history)}

C13_MoodTrend ==
    ret.op = "analyze_mood_trend" =>
        LET n == Len(ret.mood_history)
            r == ret.result
        IN  /\ n = 0 => /\ r.trend = "unknown"
                        /\ r.dominant_mood = "neutral"
                        /\ r.mood_stability = 0
            /\ n \in {1, 2} => r.trend = "insufficient_data"
            /\ n >= 3 =>
                  /\ r.trend = "improving" <=> C13_LastMoods \subseteq {"happy", "excited"}
                  /\ r.trend = "declining" <=> C13_LastMoods \subseteq {"sad", "anxious", "angry"}
                  /\ r.trend = "stable" <=>
                        /\ ~(C13_LastMoods \subseteq {"happy", "excited"})
                        /\ ~(C13_LastMoods \subseteq {"sad", "anxious", "angry"})

\* a history that began sad and ended with three happy or excited entries
C13_Witness ==
    /\ ret.op = "analyze_mood_trend"
    /\ Len(ret.mood_history) = 4
    /\ ret.mood_history[1].mood = "sad"
    /\ ret.mood_history[2].mood = "excited"
    /\ ret.mood_history[4].mood = "happy"
    /\ ret.result.trend = "improving"

\* C14: across learn_habits and update_habit_from_action calls no stored
\* habit's frequency decreases, and every confidence stays within [0, 1]
\* (0..Scale), also when a habit is reinforced at the cap.
C14_FrequencyAndConfidence ==
    [][/\ \A h \in habits : \E g \in habits' : g.id = h.id /\ g.frequency >= h.frequency
       /\ \A g \in habits' : 0 <= g.confidence /\ g.confidence <= Scale]_vars

\* update_habit_from_action has just reinforced a habit that learn_habits had
\* stored with confidence 1.0
C14_Witness ==
    /\ ret.op = "update_habit_from_action"
    /\ ret.action_type = "task_created"
    /\ \E h \in habits : /\ h.user_id = ret.user_id
                         /\ {"type", "keyword"} \subseteq DOMAIN h.pattern_data
                         /\ h.pattern_data.keyword \in
                                Range(HabitLearner_extract_keywords(ret.action_data.title))
                         /\ h.frequency > h.pattern_data.frequency
                         /\ h.confidence = Scale

\* C15: habits are keyed by (user_id, habit_type, discriminator): after any
\* sequence of learn_habits and update_habit_from_action calls at most one
\* habit row exists per key.
C15_KeyMember(habit_type) ==
    CASE habit_type = "recurring_task" -> "keyword"
      [] habit_type = "command_usage" -> "command_type"
      [] habit_type = "language_preference" -> "language"
      [] habit_type = "channel_preference" -> "channel"
      [] habit_type = "priority_preference" -> "priority"
      [] habit_type = "day_based" -> "day_of_week"
      [] habit_type = "intent_pattern" -> "intent"
      [] OTHER -> "time_of_day"

C15_Key(h) == <<h.user_id, h.habit_type, h.pattern_data[C15_KeyMember(h.habit_type)]>>

C15_OneHabitPerKey ==
    \A h, g \in habits : C15_Key(h) = C15_Key(g) => h.id = g.id

\* C15, in particular: a learn_habits call that follows a learn_habits call
\* of the same user, over the unchanged history, creates no rows and returns
\* an empty list.
C15_RelearnCreatesNothing ==
    [][(/\ ret.op = "learn_habits"
        /\ ret'.op = "learn_habits"
        /\ ret'.user_id = ret.user_id
        /\ <<tasks, commands, contexts>>' = <<tasks, commands, contexts>>)
       => /\ {h.id : h \in habits'} = {h.id : h \in habits}
          /\ ret'.result = <<>>]_vars

\* C16: the conversation log is append-only; it changes only by save_context,
\* which adds one new entry and leaves the others as they are, and by
\* clear_old_contexts(user_id, days), which removes exactly that user's
\* entries with a timestamp older than now minus days and returns their
\* number.
C16_Expired(u, days) == {c \in contexts : c.user_id = u /\ c.timestamp < now - days * Day}

C16_AppendOnlyLog ==
    [][\/ contexts' = contexts
       \/ /\ ret'.op = "save_context"
          /\ \E c \in contexts' \ contexts :
                /\ c.id = ret'.result
                /\ c.timestamp = now
                /\ contexts' = contexts \cup {c}
       \/ /\ ret'.op = "clear_old_contexts"
          /\ contexts' = contexts \ C16_Expired(ret'.user_id, ret'.days)
          /\ ret'.result = Cardinality(C16_Expired(ret'.user_id, ret'.days))]_vars

\* clear_old_contexts has removed entries of its user and kept that user's
\* entry stamped exactly at the cutoff and an older entry of another user
C16_Witness ==
    /\ ret.op = "clear_old_contexts"
    /\ ret.result > 0
    /\ \E c \in contexts : c.user_id = ret.user_id /\ c.timestamp = now - ret.days * Day
    /\ \E c \in contexts : c.user_id # ret.user_id /\ c.timestamp < now - ret.days * Day

\* C17: an operation invoked with user_id A leaves every stored habit,
\* prediction, conversation context, profile counter and voice profile of
\* every other user unchanged: each step changes the rows of at most one
\* user, the caller.
C17_Others(rows, a) == {r \in rows : r.user_id # a}

C17_OtherUsersUnchanged ==
    [][\E a \in Users :
          /\ "user_id" \in DOMAIN ret' => a = ret'.user_id
          /\ C17_Others(habits', a) = C17_Others(habits, a)
          /\ C17_Others(predictions', a) = C17_Others(predictions, a)
          /\ C17_Others(contexts', a) = C17_Others(contexts, a)
          /\ C17_Others(profiles', a) = C17_Others(profiles, a)
          /\ C17_Others(vpDb', a) = C17_Others(vpDb, a)]_vars

\* C18: predict_tasks stores rows with shown_to_user false, dismissed_by_user
\* false and accepted_by_user not true; no flag of a stored row changes by
\* predict_tasks, by get_predictions_for_user or by the clock, only by
\* accept_prediction and dismiss_prediction of the owner for that row; a flag
\* that is true stays true.
C18_Flags(p) == <<p.shown_to_user, p.accepted_by_user, p.dismissed_by_user>>

C18_FeedbackOnly ==
    [][/\ \A q \in predictions' :
            q.id \notin {p.id : p \in predictions}
            => /\ ret'.op = "predict_tasks"
               /\ q.user_id = ret'.user_id
               /\ q.shown_to_user = FALSE
               /\ q.dismissed_by_user = FALSE
               /\ q.accepted_by_user # "true"
       /\ \A p \in predictions : \E q \in predictions' :
            /\ q.id = p.id
            /\ C18_Flags(q) # C18_Flags(p)
               => /\ ret'.op \in {"accept_prediction", "dismiss_prediction"}
                  /\ ret'.prediction_id = p.id
                  /\ ret'.user_id = p.user_id
            /\ p.shown_to_user => q.shown_to_user
            /\ p.accepted_by_user = "true" => q.accepted_by_user = "true"
            /\ p.dismissed_by_user => q.dismissed_by_user]_vars

\* a stored prediction with feedback is left as it is by a get_predictions_for_user
\* of its owner that still returns an untouched one
C18_Witness ==
    /\ ret.op = "get_predictions_for_user"
    /\ ret.result # <<>>
    /\ \E p \in predictions : /\ p.user_id = ret.user_id
                              /\ p.shown_to_user
                              /\ p.created_at < now

C20_Discriminators(call) ==
    IF call.action_type = "task_created"
    THEN {<<"recurring_task", "keyword", keyword>> : keyword \in
             Range(Take(HabitLearner_extract_keywords(Get(call.action_data, "title", <<>>)),
                        TopKeywords))}
    ELSE IF call.action_type = "command_executed"
    THEN {<<"command_usage", "command_type", Get(call.action_data, "command_type", "unknown")>>}
    ELSE {<<"language_preference", "language", Get(call.action_data, "language", "en")>>,
          <<"channel_preference", "channel", Get(call.action_data, "channel", "text")>>}

C20_Rows(rows, u, key) ==
    {h \in rows : /\ h.user_id = u
                  /\ h.habit_type = key[1]
                  /\ key[2] \in DOMAIN h.pattern_data
                  /\ h.pattern_data[key[2]] = key[3]}

C20_CreatedOrReinforced(before, after) ==
    IF before = {}
    THEN \E h \in after : /\ after = {h}
                          /\ h.frequency = 1
                          /\ h.confidence = InitialConfidence
    ELSE \E h \in before : \E g \in after :
            /\ g.id = h.id
            /\ g.frequency = h.frequency + 1
            /\ g.confidence = Min(h.confidence + ConfidenceStep, Scale)
            /\ after \ {g} = before \ {h}

C20_OnePerDiscriminator ==
    [][ret'.op = "update_habit_from_action"
       => \A key \in C20_Discriminators(ret') :
             C20_CreatedOrReinforced(C20_Rows(habits, ret'.user_id, key),
                                     C20_Rows(habits', ret'.user_id, key))]_vars

\* C21: update_recognition_accuracy(profile_id, was_correct=false) on an
\* existing profile never raises recognition_accuracy and never takes it
\* below 0.0, from every starting value including the stored default 0.0.
C21_IncorrectFeedbackMonotone ==
    [][\A pid \in AnyProfileId :
          (update_recognition_accuracy(pid, FALSE) /\ ProfileById(vpDb, pid) # {}) =>
            \A p \in ProfileById(vpDb, pid) :
               \E q \in ProfileById(vpDb', pid) :
                  /\ q.recognition_accuracy <= p.recognition_accuracy
                  /\ q.recognition_accuracy >= 0]_vars

\* C22: a voice-profile mutation whose target is not found returns False and
\* mutates nothing: no stored profile changes, and every profile shows the
\* later operations of the same recognizer the is_primary flag it showed
\* before.
C22_NotFoundMutatesNothing ==
    [][(/\ ret'.op \in {"set_primary_profile", "delete_voice_profile",
                        "update_recognition_accuracy"}
        /\ ret'.result = FALSE)
       => /\ vpDb' = vpDb
          /\ \A p \in vpDb :
                SessionIsPrimary(vpPending', p) = SessionIsPrimary(vpPending, p)]_vars

\* C23: the intent returned by get_contextual_response is follow_up_<intent of the
\* most recent context> when the message contains a confirmation word and the user
\* has a recent context, else contextual_reference when the message contains a
\* reference pronoun, else unknown; no other value is returned, whatever the
\* stored contexts.
C23_Confirms(message) ==
    message \in {<<"Y", "e", "s">>, <<"I", " ", "k", "n", "o", "w">>,
                 <<"o", "k", "a", "y", " ", "d", "o", " ", "i", "t">>}

C23_Refers(message) ==
    message \in {<<"o", "k", "a", "y", " ", "d", "o", " ", "i", "t">>,
                 <<"d", "o", " ", "T", "h", "a", "t">>}

\* the contexts of the user that have not timed out
C23_Recent(u) == {c \in contexts : c.user_id = u /\ c.timestamp >= now - context_timeout_minutes}

\* the intents of the user's latest recent contexts
C23_MostRecentIntents(u) ==
    {c.intent : c \in {x \in C23_Recent(u) :
                          \A y \in C23_Recent(u) : y.timestamp <= x.timestamp}}

C24_Candidates(expected_users) ==
    {p \in vpDb : p.is_active /\ (expected_users # <<>> => p.user_id \in Range(expected_users))}

C24_Similarity(p) == _calculate_similarity(_extract_features_from_audio("voice.wav"), p)

C24_Recognition ==
    ret.op = "recognize_user_from_voice" =>
        LET candidates == C24_Candidates(ret.expected_users)
            reached == \E p \in candidates : C24_Similarity(p) >= (75 * Scale) \div 100
            alternatives == ret.alternatives
        IN  /\ ret.user_id # None <=> reached
            /\ reached =>
                  \E p \in candidates :
                     /\ \A q \in candidates : C24_Similarity(q) <= C24_Similarity(p)
                     /\ ret.user_id = p.user_id
                     /\ ret.profile_id = p.profile_id
                     /\ ret.confidence = C24_Similarity(p)
            /\ ~reached => ret.profile_id = NoProfile /\ ret.confidence = 0
            /\ Len(alternatives) <= 5
            /\ \A i, j \in 1..Len(alternatives) :
                  i < j => alternatives[i].similarity >= alternatives[j].similarity
            /\ \A i \in 1..Len(alternatives) :
                  /\ alternatives[i].profile_id # ret.profile_id
                  /\ \E p \in candidates :
                        /\ p.profile_id = alternatives[i].profile_id
                        /\ p.user_id = alternatives[i].user_id
                        /\ C24_Similarity(p) = alternatives[i].similarity

C24_Witness ==
    /\ ret.op = "recognize_user_from_voice"
    /\ Cardinality(C24_Candidates(ret.expected_users)) = MaxCandidates
    /\ ret.user_id # None
    /\ Len(ret.alternatives) = 5
    /\ \E i \in 1..5 : ret.alternatives[i].similarity = ret.confidence
    /\ \E i \in 1..5 : ret.alternatives[i].similarity < (75 * Scale) \div 100

C25_Emitted == ret.task \o ret.command \o ret.conversation

C25_FrequencyAtLeastThree ==
    ret.op = "analyze_patterns" =>
        \A i \in 1..Len(C25_Emitted) : C25_Emitted[i].frequency >= 3

\* C29: a prediction that is accepted or dismissed is also shown; so
\* get_prediction_accuracy reports accepted <= total_predictions and an accuracy
\* between 0 and 1, 0.0 when the total is 0, and get_predictions_for_user returns
\* the same rows with and without include_dismissed.
C29_Unshown(u) == {p.id : p \in {q \in predictions : q.user_id = u /\ ~q.shown_to_user}}

C29_FeedbackImpliesShown ==
    /\ \A p \in predictions :
          (p.accepted_by_user = "true" \/ p.dismissed_by_user) => p.shown_to_user
    /\ ret.op = "get_prediction_accuracy" =>
          /\ ret.accepted <= ret.total_predictions
          /\ 0 <= ret.accuracy /\ ret.accuracy <= Scale
          /\ ret.total_predictions = 0 => ret.accuracy = 0
    /\ ret.op = "get_predictions_for_user" =>
          {ret.result[i].id : i \in 1..Len(ret.result)} = C29_Unshown(ret.user_id)

C29_Witness ==
    /\ ret.op = "get_prediction_accuracy"
    /\ ret.total_predictions = 2
    /\ ret.accepted = 1
    /\ ret.dismissed = 2
    /\ ret.accuracy = Scale \div 2

\* C30: under any interleaving of two concurrent create_voice_profile calls for a
\* user without a profile, at most one of the two created profiles is primary.
C30_AtMostOnePrimary ==
    \A u \in Users : Cardinality({p \in ProfilesOf(vpDb, u) : p.is_primary}) <= 1

\* C26: the worker attempts a message at most 3 times; a failed send adds 1 to
\* attempts and makes the message pending again, five minutes later, only while
\* attempts < 3; after the third failure the message stays failed and is not among
\* the pending messages again; a message marked sent is never attempted again.
C26_FailedForGood(msg) == msg.status = "failed" /\ msg.attempts >= 3

C26_AtMostThreeAttempts ==
    /\ [](\A id \in 1..Len(queue) :
             /\ outbox[id] <= 3
             /\ C26_FailedForGood(queue[id]) =>
                   \A i \in 1..Len(PendingMessages) : PendingMessages[i] # id)
    /\ [][\A id \in 1..Len(queue) :
             /\ queue'[id].attempts # queue[id].attempts =>
                   /\ queue'[id].attempts = queue[id].attempts + 1
                   /\ queue'[id].status = "pending" <=> queue'[id].attempts < 3
                   /\ queue'[id].status = "pending" => queue'[id].send_at = now + 5
                   /\ queue'[id].status # "pending" => queue'[id].status = "failed"
             /\ C26_FailedForGood(queue[id]) => queue'[id] = queue[id]
             /\ queue[id].status = "sent" => outbox'[id] = outbox[id]]_vars

\* C27: once cancel_message has cancelled a message, the message is never sent
\* afterwards and its status never leaves 'cancelled', whatever the worker thread
\* does with a message it had already picked up.
C27_CancellationIsFinal ==
    [][\A id \in 1..Len(queue) :
          queue[id].status = "cancelled" =>
             /\ queue'[id].status = "cancelled"
             /\ outbox'[id] = outbox[id]]_vars

====
